---- MODULE Spec2Model ----
\* A model of deimos-router's routing core: Decision, TaskRule, the rule
\* registry and Router (src/src/deimos_router/router.py, rules/base.py,
\* rules/task_rule.py, rules/__init__.py).
EXTENDS Integers, Sequences, FiniteSets, TLC

\* ------------------------------------------------------------------ bounds
\* Longest rule list handed to the Router constructor.
MaxRules == 2

\* ------------------------------------------------------- program constants
\* Router._evaluate_rule_chain(..., max_depth: int = 10)
max_depth == 10

\* ------------------------------------------------------------ Python values
\* A Python value is None, a str or a reference to a Rule object.
None == [kind |-> "none", s |-> "", id |-> 0]
Str(s) == [kind |-> "str", s |-> s, id |-> 0]
RuleObj(i) == [kind |-> "rule", s |-> "", id |-> i]

\* Python truthiness of a value: None and "" are falsy, a Rule object (no
\* __bool__, no __len__) is truthy.
Truthy(v) == (v.kind = "str" /\ v.s # "") \/ v.kind = "rule"

\* a or b
PyOr(a, b) == IF Truthy(a) THEN a ELSE b

\* An optional list argument: absent (None) or a sequence.
NoList == [given |-> FALSE, items |-> <<>>]
List(q) == [given |-> TRUE, items |-> q]

\* --------------------------------------------------------------- the inputs
\* The TaskRule objects on the heap.
RuleIds == {1, 2}

\* Rule.name of the i-th rule object.
RuleName(i) == CASE i = 1 -> "r1" [] i = 2 -> "r2" [] i = 3 -> "r3" [] OTHER -> "r4"

\* The name convention of the docstrings: "deimos/rules/<rule-name>".
RuleRefString(i) == CASE i = 1 -> "deimos/rules/r1" [] i = 2 -> "deimos/rules/r2"
                      [] i = 3 -> "deimos/rules/r3" [] OTHER -> "deimos/rules/r4"
RuleRefStrings == {RuleRefString(i) : i \in RuleIds}

\* Model identifiers the rules map to (non-empty strings).
ModelIds == {"X", "Y"}

\* Task keys of the rules' mappings, and the task labels of the requests.
TaskKeys == {"a"}
TaskLabels == {"a", "b"}

\* What a mapping entry of a TaskRule may hold: a model name, a rule name
\* "deimos/rules/<name>" or another Rule object.
Targets == {Str(m) : m \in ModelIds} \cup {Str(RuleRefString(1))} \cup {RuleObj(i) : i \in RuleIds}

\* The triggers dict of one TaskRule: a function from the keys present.
TriggerDicts == UNION {[D -> Targets] : D \in SUBSET TaskKeys}

\* A request: request_data is None, or a dict whose 'task' is absent (None) or a label.
Requests == {[isNone |-> TRUE, task |-> None], [isNone |-> FALSE, task |-> None]}
              \cup {[isNone |-> FALSE, task |-> Str(t)] : t \in TaskLabels}

\* An entry of Router.rules: a Rule object or the name of a rule.
RuleEntries == {RuleObj(i) : i \in RuleIds} \cup {Str(RuleName(i)) : i \in RuleIds}

RECURSIVE SeqsUpTo(_, _)
SeqsUpTo(S, n) ==
    IF n = 0 THEN {<<>>}
    ELSE LET shorter == SeqsUpTo(S, n - 1)
         IN shorter \cup {Append(q, e) : q \in {p \in shorter : Len(p) = n - 1}, e \in S}

\* The arguments of Router(name, rules, default, models).
RulesArgs == {NoList} \cup {List(q) : q \in SeqsUpTo(RuleEntries, MaxRules)}
DefaultArgs == {None, Str("Z")}
ModelsArgs == {NoList, List(<<>>), List(<<"m1", "m2">>)}

\* ------------------------------------------------------------------- state
VARIABLES
    triggers,       \* triggers[i]: the triggers dict of rule object i (TaskRule.triggers)
    rule_registry,  \* _rule_registry: rule name -> rule object id
    router,         \* the Router object: name, rules, default, models
    last,           \* the last call made on the router since the registry last
                    \* changed: the arguments, the outcome and the evaluate calls
    history,        \* the mutator calls made so far, where a specification
                    \* keeps them, and the state they started from
    the_rule,       \* the fields of the rule object a specification of one
                    \* rule class is about
    router_registry, \* _router_registry: router name -> router object id
    calls           \* the calls in progress, where a specification follows a
                    \* call statement by statement: each caller's request
                    \* and the local variables of its call

\* The state the Router calls neither read nor write.
aside == <<history, the_rule, router_registry, calls>>

vars == <<triggers, rule_registry, router, last, history, the_rule, router_registry, calls>>

\* ----------------------------------------------------------------- Decision
\* Decision(value, trigger)
Decision(value, trigger) == [value |-> value, trigger |-> trigger]
\* isinstance(self.value, str)
is_model(d) == d.value.kind = "str"
\* isinstance(self.value, Rule)
is_rule(d) == d.value.kind = "rule"
is_none(d) == d.value.kind = "none"
\* get_model returning self.value whatever it is.
get_model_any_value(d) == d.value
\* self.value if self.is_model() else None
get_model(d) == IF is_model(d) THEN d.value ELSE None
get_rule(d) == IF is_rule(d) THEN d.value ELSE None

\* ExplanationEntry(rule_type, rule_name, rule_trigger, decision):
\* rule_trigger = rule_trigger or "None".
ExplanationEntry(rule_type, rule_name, rule_trigger, decision) ==
    [rule_type |-> rule_type, rule_name |-> rule_name,
     rule_trigger |-> PyOr(rule_trigger, Str("None")).s, decision |-> decision]

\* ----------------------------------------------------------------- TaskRule
\* TaskRule.evaluate(request_data), request_data a dict.
evaluate(i, request_data) ==
    LET task == request_data.task
    IN IF task.kind = "none" THEN Decision(None, None)
       ELSE IF task.s \in DOMAIN triggers[i] THEN Decision(triggers[i][task.s], task)
       ELSE Decision(None, task)

get_rule_type(i) == "TaskRule"

\* ------------------------------------------------------------ rule registry
\* get_rule(name): _rule_registry.get(name)
registry_get_rule(name) ==
    IF name \in DOMAIN rule_registry THEN RuleObj(rule_registry[name]) ELSE None

\* -------------------------------------------------------------------- Router
DEFAULT_CHEAP_MODELS ==
    <<"openai/gpt-3.5-turbo", "openai/gpt-3.5-turbo-0125",
      "openai/gpt-4o-mini", "openai/gpt-4o-mini-2024-07-18">>

\* rules or [] / models or []
ListOrEmpty(l) == IF l.given /\ Len(l.items) > 0 THEN l.items ELSE <<>>

\* Router.__init__ raises ValueError("Router must have at least one model to
\* select from"): no rules, and models given as an empty list.
RouterInitRaises(rules, default, models) ==
    /\ ListOrEmpty(rules) = <<>>
    /\ models.given
    /\ Len(models.items) = 0

\* Router.__init__ with self.default = default (no fallback to "gpt-3.5-turbo").
RouterInitNoFallback(name, rules, default, models) ==
    [name |-> name,
     rules |-> ListOrEmpty(rules),
     default |-> default,
     models |-> IF ListOrEmpty(rules) = <<>>
                THEN (IF ~models.given THEN DEFAULT_CHEAP_MODELS ELSE models.items)
                ELSE ListOrEmpty(models)]

\* Router.__init__(name, rules, default, models), when it does not raise.
RouterInit(name, rules, default, models) ==
    [name |-> name,
     rules |-> ListOrEmpty(rules),
     default |-> PyOr(default, Str("gpt-3.5-turbo")),
     models |-> IF ListOrEmpty(rules) = <<>>
                THEN (IF ~models.given THEN DEFAULT_CHEAP_MODELS ELSE models.items)
                ELSE ListOrEmpty(models)]

\* One call of current_rule.evaluate, as the chain loop saw it: the rule
\* evaluated and the Decision it returned.
Eval(i, d) == [rule |-> i, value |-> d.value, trigger |-> d.trigger]

\* The while loop of _evaluate_rule_chain with the test depth <= max_depth.
RECURSIVE evaluate_rule_chain_loop_off_by_one(_, _, _)
evaluate_rule_chain_loop_off_by_one(current_rule, depth, request_data) ==
    IF Truthy(current_rule) /\ depth <= max_depth
    THEN LET decision == evaluate(current_rule.id, request_data)
             ev == Eval(current_rule.id, decision)
         IN IF is_model(decision)
            THEN [model |-> get_model(decision), evals |-> <<ev>>]
            ELSE IF is_rule(decision)
            THEN LET rest == evaluate_rule_chain_loop_off_by_one(
                                 get_rule(decision), depth + 1, request_data)
                 IN [model |-> rest.model, evals |-> <<ev>> \o rest.evals]
            ELSE [model |-> None, evals |-> <<ev>>]
    ELSE [model |-> None, evals |-> <<>>]

\* Router._evaluate_rule_chain: the while loop from (current_rule, depth).
\* Returns the model (or None) and the evaluate calls made, in order.
RECURSIVE evaluate_rule_chain_loop(_, _, _)
evaluate_rule_chain_loop(current_rule, depth, request_data) ==
    IF Truthy(current_rule) /\ depth < max_depth
    THEN LET decision == evaluate(current_rule.id, request_data)
             ev == Eval(current_rule.id, decision)
         IN IF is_model(decision)
            THEN [model |-> get_model(decision), evals |-> <<ev>>]
            ELSE IF is_rule(decision)
            THEN LET rest == evaluate_rule_chain_loop(get_rule(decision), depth + 1, request_data)
                 IN [model |-> rest.model, evals |-> <<ev>> \o rest.evals]
            ELSE [model |-> None, evals |-> <<ev>>]
    ELSE [model |-> None, evals |-> <<>>]

\* _evaluate_rule_chain with depth starting at 1.
evaluate_rule_chain_from_one(rule, request_data) ==
    evaluate_rule_chain_loop(rule, 1, request_data)

\* Router._evaluate_rule_chain(rule, request_data)
evaluate_rule_chain(rule, request_data) ==
    evaluate_rule_chain_loop(rule, 0, request_data)

\* The while loop of _evaluate_rule_chain_with_explanation writing "no_match"
\* for a rule that hands over to another rule.
RECURSIVE evaluate_rule_chain_with_explanation_loop_no_continue(_, _, _)
evaluate_rule_chain_with_explanation_loop_no_continue(current_rule, depth, request_data) ==
    IF Truthy(current_rule) /\ depth < max_depth
    THEN LET decision == evaluate(current_rule.id, request_data)
             ev == Eval(current_rule.id, decision)
             rule_type == get_rule_type(current_rule.id)
             rule_name == RuleName(current_rule.id)
         IN IF is_model(decision)
            THEN [model |-> get_model(decision),
                  explanation |-> <<ExplanationEntry(rule_type, rule_name, decision.trigger,
                                                     get_model(decision).s)>>,
                  evals |-> <<ev>>]
            ELSE IF is_rule(decision)
            THEN LET rest == evaluate_rule_chain_with_explanation_loop_no_continue(
                                 get_rule(decision), depth + 1, request_data)
                 IN [model |-> rest.model,
                     explanation |-> <<ExplanationEntry(rule_type, rule_name, decision.trigger,
                                                        "no_match")>> \o rest.explanation,
                     evals |-> <<ev>> \o rest.evals]
            ELSE [model |-> None,
                  explanation |-> <<ExplanationEntry(rule_type, rule_name, decision.trigger,
                                                     "no_match")>>,
                  evals |-> <<ev>>]
    ELSE [model |-> None,
          explanation |-> IF Truthy(current_rule)
                          THEN <<ExplanationEntry(get_rule_type(current_rule.id),
                                                  RuleName(current_rule.id),
                                                  Str("max_depth_reached"), "no_match")>>
                          ELSE <<>>,
          evals |-> <<>>]

\* Router._evaluate_rule_chain_with_explanation: the while loop and the
\* max-depth exit. Returns the model (or None), the explanation entries and
\* the evaluate calls made.
RECURSIVE evaluate_rule_chain_with_explanation_loop(_, _, _)
evaluate_rule_chain_with_explanation_loop(current_rule, depth, request_data) ==
    IF Truthy(current_rule) /\ depth < max_depth
    THEN LET decision == evaluate(current_rule.id, request_data)
             ev == Eval(current_rule.id, decision)
             rule_type == get_rule_type(current_rule.id)
             rule_name == RuleName(current_rule.id)
         IN IF is_model(decision)
            THEN [model |-> get_model(decision),
                  explanation |-> <<ExplanationEntry(rule_type, rule_name, decision.trigger,
                                                     get_model(decision).s)>>,
                  evals |-> <<ev>>]
            ELSE IF is_rule(decision)
            THEN LET rest == evaluate_rule_chain_with_explanation_loop(
                                 get_rule(decision), depth + 1, request_data)
                 IN [model |-> rest.model,
                     explanation |-> <<ExplanationEntry(rule_type, rule_name, decision.trigger,
                                                        "continue")>> \o rest.explanation,
                     evals |-> <<ev>> \o rest.evals]
            ELSE [model |-> None,
                  explanation |-> <<ExplanationEntry(rule_type, rule_name, decision.trigger,
                                                     "no_match")>>,
                  evals |-> <<ev>>]
    ELSE [model |-> None,
          explanation |-> IF Truthy(current_rule)
                          THEN <<ExplanationEntry(get_rule_type(current_rule.id),
                                                  RuleName(current_rule.id),
                                                  Str("max_depth_reached"), "no_match")>>
                          ELSE <<>>,
          evals |-> <<>>]

\* Router._evaluate_rule_chain_with_explanation(rule, request_data)
evaluate_rule_chain_with_explanation(rule, request_data) ==
    evaluate_rule_chain_with_explanation_loop(rule, 0, request_data)

\* The evaluate calls of a chain, tagged with the index of the top-level
\* entry of Router.rules whose chain made them.
Tagged(evals, top) ==
    [k \in 1..Len(evals) |->
        [top |-> top, rule |-> evals[k].rule, value |-> evals[k].value,
         trigger |-> evals[k].trigger]]

\* A name looked up once, when the router was built: the registry was empty
\* then, so a name stands for no rule.
ResolveRuleRefAtConstruction(rule_ref) ==
    IF rule_ref.kind = "str" THEN None ELSE rule_ref

\* The rule a rule_ref of Router.rules stands for: get_rule(rule_ref) for a
\* name, the object itself otherwise.
ResolveRuleRef(rule_ref) ==
    IF rule_ref.kind = "str" THEN registry_get_rule(rule_ref.s) ELSE rule_ref

\* The for loop of _select_model_by_rules without the early return: the
\* last rule whose chain yields a model wins.
RECURSIVE select_model_by_rules_last_match(_, _, _)
select_model_by_rules_last_match(self, i, request_data) ==
    IF i > Len(self.rules)
    THEN [raised |-> FALSE, model |-> self.default, explanation |-> <<>>, evals |-> <<>>]
    ELSE LET rule == ResolveRuleRef(self.rules[i])
             rest == select_model_by_rules_last_match(self, i + 1, request_data)
         IN IF self.rules[i].kind = "str" /\ rule = None
            THEN rest
            ELSE LET chain == evaluate_rule_chain(rule, request_data)
                 IN [raised |-> FALSE,
                     model |-> IF Truthy(chain.model) /\ rest.model = self.default
                               THEN chain.model ELSE rest.model,
                     explanation |-> <<>>,
                     evals |-> Tagged(chain.evals, i) \o rest.evals]

\* The for loop of _select_model_by_rules returning the default as soon as
\* a chain gives no model.
RECURSIVE select_model_by_rules_stop_at_none(_, _, _)
select_model_by_rules_stop_at_none(self, i, request_data) ==
    IF i > Len(self.rules)
    THEN [raised |-> FALSE, model |-> self.default, explanation |-> <<>>, evals |-> <<>>]
    ELSE LET rule == ResolveRuleRef(self.rules[i])
         IN IF self.rules[i].kind = "str" /\ rule = None
            THEN select_model_by_rules_stop_at_none(self, i + 1, request_data)
            ELSE LET chain == evaluate_rule_chain(rule, request_data)
                 IN [raised |-> FALSE,
                     model |-> IF Truthy(chain.model) THEN chain.model ELSE self.default,
                     explanation |-> <<>>,
                     evals |-> Tagged(chain.evals, i)]

\* The for loop of _select_model_by_rules with break in place of continue
\* for a name the registry does not know.
RECURSIVE select_model_by_rules_break_unknown(_, _, _)
select_model_by_rules_break_unknown(self, i, request_data) ==
    IF i > Len(self.rules)
    THEN [raised |-> FALSE, model |-> self.default, explanation |-> <<>>, evals |-> <<>>]
    ELSE LET rule == ResolveRuleRef(self.rules[i])
         IN IF self.rules[i].kind = "str" /\ rule = None
            THEN [raised |-> FALSE, model |-> self.default, explanation |-> <<>>,
                  evals |-> <<>>]
            ELSE LET chain == evaluate_rule_chain(rule, request_data)
                 IN IF Truthy(chain.model)
                    THEN [raised |-> FALSE, model |-> chain.model, explanation |-> <<>>,
                          evals |-> Tagged(chain.evals, i)]
                    ELSE LET rest == select_model_by_rules_break_unknown(
                                         self, i + 1, request_data)
                         IN [raised |-> FALSE, model |-> rest.model, explanation |-> <<>>,
                             evals |-> Tagged(chain.evals, i) \o rest.evals]

\* Router._select_model_by_rules: the for loop from the i-th entry on, and
\* the return of the default after it.
RECURSIVE select_model_by_rules_from(_, _, _)
select_model_by_rules_from(self, i, request_data) ==
    IF i > Len(self.rules)
    THEN [raised |-> FALSE, model |-> self.default, explanation |-> <<>>, evals |-> <<>>]
    ELSE LET rule == ResolveRuleRef(self.rules[i])
         IN IF self.rules[i].kind = "str" /\ rule = None
            THEN select_model_by_rules_from(self, i + 1, request_data)
            ELSE LET chain == evaluate_rule_chain(rule, request_data)
                 IN IF Truthy(chain.model)
                    THEN [raised |-> FALSE, model |-> chain.model, explanation |-> <<>>,
                          evals |-> Tagged(chain.evals, i)]
                    ELSE LET rest == select_model_by_rules_from(self, i + 1, request_data)
                         IN [raised |-> FALSE, model |-> rest.model, explanation |-> <<>>,
                             evals |-> Tagged(chain.evals, i) \o rest.evals]

\* Router._select_model_by_rules(request_data)
select_model_by_rules(self, request_data) ==
    select_model_by_rules_from(self, 1, request_data)

\* The for loop of _select_model_by_rules_with_explanation without
\* explanation.extend(rule_explanation) for a chain that gave no model.
RECURSIVE select_model_by_rules_with_explanation_no_extend(_, _, _)
select_model_by_rules_with_explanation_no_extend(self, i, request_data) ==
    IF i > Len(self.rules)
    THEN [raised |-> FALSE, model |-> self.default,
          explanation |-> <<ExplanationEntry("default", "default", Str("None"), self.default.s)>>,
          evals |-> <<>>]
    ELSE LET rule == ResolveRuleRef(self.rules[i])
         IN IF self.rules[i].kind = "str" /\ rule = None
            THEN select_model_by_rules_with_explanation_no_extend(self, i + 1, request_data)
            ELSE LET chain == evaluate_rule_chain_with_explanation(rule, request_data)
                 IN IF Truthy(chain.model)
                    THEN [raised |-> FALSE, model |-> chain.model,
                          explanation |-> chain.explanation,
                          evals |-> Tagged(chain.evals, i)]
                    ELSE LET rest == select_model_by_rules_with_explanation_no_extend(
                                         self, i + 1, request_data)
                         IN [raised |-> FALSE, model |-> rest.model,
                             explanation |-> rest.explanation,
                             evals |-> Tagged(chain.evals, i) \o rest.evals]

\* Router._select_model_by_rules_with_explanation: the for loop from the
\* i-th entry on, and the default entry appended after it.
RECURSIVE select_model_by_rules_with_explanation_from(_, _, _)
select_model_by_rules_with_explanation_from(self, i, request_data) ==
    IF i > Len(self.rules)
    THEN [raised |-> FALSE, model |-> self.default,
          explanation |-> <<ExplanationEntry("default", "default", Str("None"), self.default.s)>>,
          evals |-> <<>>]
    ELSE LET rule == ResolveRuleRef(self.rules[i])
         IN IF self.rules[i].kind = "str" /\ rule = None
            THEN select_model_by_rules_with_explanation_from(self, i + 1, request_data)
            ELSE LET chain == evaluate_rule_chain_with_explanation(rule, request_data)
                 IN IF Truthy(chain.model)
                    THEN [raised |-> FALSE, model |-> chain.model,
                          explanation |-> chain.explanation,
                          evals |-> Tagged(chain.evals, i)]
                    ELSE LET rest == select_model_by_rules_with_explanation_from(
                                         self, i + 1, request_data)
                         IN [raised |-> FALSE, model |-> rest.model,
                             explanation |-> chain.explanation \o rest.explanation,
                             evals |-> Tagged(chain.evals, i) \o rest.evals]

\* Router._select_model_by_rules_with_explanation(request_data)
select_model_by_rules_with_explanation(self, request_data) ==
    select_model_by_rules_with_explanation_from(self, 1, request_data)

\* request_data or {}: None and the empty dict both give a dict with no task.
OrEmptyDict(request_data) == [isNone |-> FALSE, task |-> request_data.task]

\* random.choice(seq), the index drawn being pick; IndexError on an empty seq.
random_choice(q, pick) ==
    IF Len(q) = 0
    THEN [raised |-> TRUE, model |-> None, explanation |-> <<>>, evals |-> <<>>]
    ELSE [raised |-> FALSE, model |-> Str(q[pick]), explanation |-> <<>>, evals |-> <<>>]

\* select_model returning self.default when the router has no rules.
select_model_default_without_rules(self, request_data, pick) ==
    IF Len(self.rules) > 0
    THEN select_model_by_rules(self, OrEmptyDict(request_data))
    ELSE [raised |-> FALSE, model |-> self.default, explanation |-> <<>>, evals |-> <<>>]

\* Router.select_model(request_data); pick is the draw of random.choice.
select_model(self, request_data, pick) ==
    IF Len(self.rules) > 0
    THEN select_model_by_rules(self, OrEmptyDict(request_data))
    ELSE IF Len(self.models) > 0
    THEN random_choice(self.models, pick)
    ELSE [raised |-> FALSE, model |-> self.default, explanation |-> <<>>, evals |-> <<>>]

\* select_model_with_explanation without the explanation.append of the two
\* fallbacks.
select_model_with_explanation_bare_fallback(self, request_data, pick) ==
    LET byRules == select_model_by_rules_with_explanation(self, OrEmptyDict(request_data))
        explanation == IF Len(self.rules) > 0 THEN byRules.explanation ELSE <<>>
        evals == IF Len(self.rules) > 0 THEN byRules.evals ELSE <<>>
    IN IF Len(self.rules) > 0 /\ Truthy(byRules.model)
       THEN byRules
       ELSE IF Len(self.models) > 0
       THEN LET selected == random_choice(self.models, pick)
            IN [raised |-> selected.raised, model |-> selected.model,
                explanation |-> explanation, evals |-> evals]
       ELSE [raised |-> FALSE, model |-> self.default,
             explanation |-> explanation, evals |-> evals]

\* Router.select_model_with_explanation(request_data)
select_model_with_explanation(self, request_data, pick) ==
    LET byRules == select_model_by_rules_with_explanation(self, OrEmptyDict(request_data))
        explanation == IF Len(self.rules) > 0 THEN byRules.explanation ELSE <<>>
        evals == IF Len(self.rules) > 0 THEN byRules.evals ELSE <<>>
    IN IF Len(self.rules) > 0 /\ Truthy(byRules.model)
       THEN byRules
       ELSE IF Len(self.models) > 0
       THEN LET selected == random_choice(self.models, pick)
            IN [raised |-> selected.raised, model |-> selected.model,
                explanation |-> Append(explanation,
                    ExplanationEntry("default", "default", Str("None"), selected.model.s)),
                evals |-> evals]
       ELSE [raised |-> FALSE, model |-> self.default,
             explanation |-> Append(explanation,
                 ExplanationEntry("default", "default", Str("None"), self.default.s)),
             evals |-> evals]

\* The draws random.choice(self.models) can make.
Picks(self) == IF Len(self.models) = 0 THEN {1} ELSE 1..Len(self.models)

\* ------------------------------------------------------------------ actions
\* Nothing recorded.
NoHistory == [init |-> <<>>, ops |-> <<>>]

NoCall == [op |-> "none", request |-> [isNone |-> TRUE, task |-> None],
           raised |-> FALSE, model |-> None, explanation |-> <<>>, evals |-> <<>>]

Call(op, request_data, out) ==
    [op |-> op, request |-> request_data, raised |-> out.raised, model |-> out.model,
     explanation |-> out.explanation, evals |-> out.evals]

\* The module is imported (empty registry), the TaskRule objects are built
\* with some triggers and the Router is constructed from some arguments that
\* its constructor accepts.
Init ==
    /\ triggers \in [RuleIds -> TriggerDicts]
    /\ rule_registry = <<>>
    /\ \E rules \in RulesArgs, default \in DefaultArgs, models \in ModelsArgs :
          /\ ~RouterInitRaises(rules, default, models)
          /\ router = RouterInit("router", rules, default, models)
    /\ last = NoCall
    /\ history = NoHistory
    /\ the_rule = None
    /\ router_registry = <<>>
    /\ calls = <<>>

\* router.select_model(request_data)
SelectModel ==
    \E request_data \in Requests, pick \in Picks(router) :
        /\ last' = Call("select_model", request_data,
                        select_model(router, request_data, pick))
        /\ UNCHANGED <<triggers, rule_registry, router>>
        /\ UNCHANGED aside

\* router.select_model_with_explanation(request_data)
SelectModelWithExplanation ==
    \E request_data \in Requests, pick \in Picks(router) :
        /\ last' = Call("select_model_with_explanation", request_data,
                        select_model_with_explanation(router, request_data, pick))
        /\ UNCHANGED <<triggers, rule_registry, router>>
        /\ UNCHANGED aside

\* register_rule(rule): _rule_registry[rule.name] = rule
RegisterRule ==
    \E i \in RuleIds :
        /\ rule_registry' = [n \in DOMAIN rule_registry \cup {RuleName(i)} |->
                                IF n = RuleName(i) THEN i ELSE rule_registry[n]]
        /\ last' = NoCall
        /\ UNCHANGED <<triggers, router>>
        /\ UNCHANGED aside

\* clear_rules(): _rule_registry.clear()
ClearRules ==
    /\ rule_registry' = <<>>
    /\ last' = NoCall
    /\ UNCHANGED <<triggers, router>>
    /\ UNCHANGED aside

Next ==
    \/ SelectModel
    \/ SelectModelWithExplanation
    \/ RegisterRule
    \/ ClearRules

Spec == Init /\ [][Next]_vars

\* ------------------------------------------------------- reading a call
RuleBased == Len(router.rules) > 0

\* The request as the rules saw it (request_data or {}).
SeenRequest == OrEmptyDict(last.request)

\* The evaluate calls made for the chain of the t-th top-level entry.
ChainEvals(t) == SelectSeq(last.evals, LAMBDA e : e.top = t)

\* The top-level entries whose chain made at least one evaluate call.
Tops == {last.evals[k].top : k \in DOMAIN last.evals}

\* The t-th entry of Router.rules stands for a rule: an object, or a name
\* the registry knows.
Resolvable(t) == ResolveRuleRef(router.rules[t]) # None

\* The entries after the t-th that stand for a rule.
LaterResolvable(t) == {u \in (t + 1)..Len(router.rules) : Resolvable(u)}

\* The chain of the t-th entry ended with a rule handing over to another
\* rule: the depth bound cut it.
CutByDepth(t) ==
    /\ ChainEvals(t) # <<>>
    /\ ChainEvals(t)[Len(ChainEvals(t))].value.kind = "rule"

\* After the chain of the t-th entry gave no model, the call went on: the
\* next entry that stands for a rule was evaluated, or none is left and the
\* default was returned.
WentOnAfter(t) ==
    IF LaterResolvable(t) = {}
    THEN last.model = router.default
    ELSE \A u \in LaterResolvable(t) :
            (\A w \in LaterResolvable(t) : u <= w) => u \in Tops

\* ------------------------------------------------------------------ claims

ChainModel(t) == evaluate_rule_chain(ResolveRuleRef(router.rules[t]), SeenRequest).model

\* The entries whose chain yields a model for the request of the call.
Yielding == {t \in 1..Len(router.rules) : Resolvable(t) /\ Truthy(ChainModel(t))}

\* The evaluate calls were made in the order of the rule list.
InListOrder ==
    \A j, k \in DOMAIN last.evals : j < k => last.evals[j].top <= last.evals[k].top

\* C2: on a router with a non-empty rule list, select_model evaluates the
\* top-level rules in list order and returns the model of the first rule
\* whose chain yields one, evaluating no later top-level rule; when no chain
\* yields a model it returns the router's default.
C2_FirstMatchWins ==
    (last.op = "select_model" /\ RuleBased) =>
        /\ InListOrder
        /\ IF Yielding = {}
           THEN /\ last.model = router.default
                /\ Tops = {t \in 1..Len(router.rules) : Resolvable(t)}
           ELSE LET first == CHOOSE t \in Yielding : \A u \in Yielding : t <= u
                IN /\ last.model = ChainModel(first)
                   /\ Tops = {t \in 1..first : Resolvable(t)}

\* A call where the first entry's chain gave no model, the second entry
\* answered with a model other than the one a later entry would have given.
C2_Witness ==
    /\ last.op = "select_model"
    /\ Len(router.rules) >= 2
    /\ Yielding = {1, 2}
    /\ ChainModel(1) # ChainModel(2)
    /\ last.model = ChainModel(1)
    /\ Tops = {1}

\* C3: chain resolution terminates. A chain makes at most max_depth
\* evaluate calls; a chain whose rules keep handing over to one another (a
\* cycle of any length, a rule referring to itself included) is cut after
\* exactly max_depth calls and yields no model, and the call then goes on to
\* the next top-level rule or returns the default.
C3_ChainTermination ==
    (last.op \in {"select_model", "select_model_with_explanation"} /\ RuleBased) =>
        \A t \in Tops :
            /\ Len(ChainEvals(t)) <= max_depth
            /\ CutByDepth(t) =>
                  /\ Len(ChainEvals(t)) = max_depth
                  /\ WentOnAfter(t)

\* A rule that refers to itself was evaluated max_depth times, and then the
\* next top-level rule was evaluated.
C3_Witness ==
    /\ last.op = "select_model"
    /\ Len(router.rules) = 2
    /\ CutByDepth(1)
    /\ \A k \in DOMAIN ChainEvals(1) : ChainEvals(1)[k].rule = ChainEvals(1)[1].rule
    /\ 2 \in Tops

\* A rule produced the model of the call: the last evaluate call returned a str.
ProducedByRule ==
    /\ last.evals # <<>>
    /\ last.evals[Len(last.evals)].value.kind = "str"

\* The synthetic default entries an explanation is due: one iff no rule
\* produced a model.
DefaultEntriesDue == IF ProducedByRule THEN 0 ELSE 1

\* The entries of the explanation that are the synthetic default entry.
DefaultEntries == {k \in DOMAIN last.explanation : last.explanation[k].rule_type = "default"}

ExplainedRuleCall == last.op = "select_model_with_explanation" /\ RuleBased

\* C4 as stated: the explanation holds exactly one entry per evaluate call
\* made, plus one synthetic default entry iff no rule produced a model, also
\* when a chain was cut by the depth bound.
C4_AsStated ==
    ExplainedRuleCall =>
        Len(last.explanation) = Len(last.evals) + DefaultEntriesDue

\* C4 (amended): the explanation holds one entry per evaluate call made,
\* plus one "max_depth_reached" entry for each chain cut by the depth bound
\* (an entry for the rule that was next and was not evaluated), plus exactly
\* one synthetic default entry iff no rule produced a model.
C4_ExplanationCount ==
    ExplainedRuleCall =>
        /\ Len(last.explanation) =
              Len(last.evals) + Cardinality({t \in Tops : CutByDepth(t)}) + DefaultEntriesDue
        /\ Cardinality(DefaultEntries) = DefaultEntriesDue

\* A call whose first chain was cut by the depth bound and whose second
\* chain gave no model: 10 + 1 evaluate calls, 13 entries.
C4_Witness ==
    /\ ExplainedRuleCall
    /\ CutByDepth(1)
    /\ 2 \in Tops
    /\ ~ProducedByRule
    /\ Len(last.evals) = max_depth + 1
    /\ Len(last.explanation) = max_depth + 3

\* The entry the k-th evaluate call of the call is due: the model when the
\* rule returned a model, "continue" when it returned another rule,
\* "no_match" when it returned None.
EntryOfEval(k) ==
    LET e == last.evals[k]
    IN [rule_type |-> "TaskRule",
        rule_name |-> RuleName(e.rule),
        rule_trigger |-> IF e.trigger.kind = "str" THEN e.trigger.s ELSE "None",
        decision |-> CASE e.value.kind = "str" -> e.value.s
                       [] e.value.kind = "rule" -> "continue"
                       [] OTHER -> "no_match"]

\* The k-th evaluate call is the last of its chain and handed over to
\* another rule: the depth bound cut the chain after it.
CutAfter(k) ==
    /\ last.evals[k].value.kind = "rule"
    /\ (k = Len(last.evals) \/ last.evals[k + 1].top # last.evals[k].top)

\* The trail due from the k-th evaluate call on.
RECURSIVE TrailFrom(_)
TrailFrom(k) ==
    IF k > Len(last.evals)
    THEN IF ProducedByRule THEN <<>>
         ELSE <<[rule_type |-> "default", rule_name |-> "default", rule_trigger |-> "None",
                 decision |-> router.default.s]>>
    ELSE <<EntryOfEval(k)>>
         \o (IF CutAfter(k)
             THEN <<[rule_type |-> "TaskRule", rule_name |-> RuleName(last.evals[k].value.id),
                     rule_trigger |-> "max_depth_reached", decision |-> "no_match"]>>
             ELSE <<>>)
         \o TrailFrom(k + 1)

\* C5: the explanation lists the rules in evaluation order; an entry's
\* decision is the model when the rule returned a model, "continue" when it
\* returned another rule and "no_match" when the chain was aborted (the rule
\* returned None, or the depth bound was reached: trigger
\* "max_depth_reached"); when every chain aborts, one last entry ("default",
\* "default", "None", the router's default) is appended.
C5_ExplanationTrail ==
    ExplainedRuleCall => last.explanation = TrailFrom(1)

\* A trail with a "continue" hop, a "no_match" from a None decision and the
\* default entry.
C5_Witness ==
    /\ ExplainedRuleCall
    /\ Len(last.explanation) = 3
    /\ last.explanation[1].decision = "continue"
    /\ last.explanation[1].rule_name # last.explanation[2].rule_name
    /\ last.explanation[2].decision = "no_match"
    /\ last.explanation[2].rule_trigger = "a"
    /\ last.explanation[3] = [rule_type |-> "default", rule_name |-> "default",
                              rule_trigger |-> "None", decision |-> "Z"]

RuleCall == last.op \in {"select_model", "select_model_with_explanation"} /\ RuleBased

\* The rule name a reference "deimos/rules/<name>" names.
StripPrefix(ref) == CHOOSE n \in {RuleName(i) : i \in RuleIds} :
                        \E i \in RuleIds : RuleName(i) = n /\ RuleRefString(i) = ref

\* C6: a target given as a rule name "deimos/rules/<name>" is a hop: the
\* prefix is stripped, the name looked up in the registry and the chain
\* goes on with that rule; an unregistered name aborts the chain with no
\* model. The reference string is never the selected model.
C6_NameReferenceHop ==
    RuleCall =>
        /\ last.model.s \notin RuleRefStrings
        /\ \A k \in DOMAIN last.evals :
              last.evals[k].value.s \in RuleRefStrings =>
                  IF StripPrefix(last.evals[k].value.s) \in DOMAIN rule_registry
                  THEN /\ k < Len(last.evals)
                       /\ last.evals[k + 1].top = last.evals[k].top
                       /\ last.evals[k + 1].rule =
                              rule_registry[StripPrefix(last.evals[k].value.s)]
                  ELSE WentOnAfter(last.evals[k].top)

\* C7 as stated: a router with an empty rule list and default "Z" returns
\* "Z" from select_model, and "Z" with one synthetic default entry whose
\* decision is "Z" from select_model_with_explanation.
C7_AsStated ==
    (~RuleBased /\ router.default = Str("Z") /\ last.op # "none") =>
        /\ last.model = Str("Z")
        /\ last.op = "select_model_with_explanation" =>
              last.explanation = <<[rule_type |-> "default", rule_name |-> "default",
                                    rule_trigger |-> "None", decision |-> "Z"]>>

\* C7 (amended): a router with an empty rule list returns from select_model
\* a member of its model list (the models argument, or the built-in list
\* when models is omitted), whatever its default; with explanation it
\* returns such a member and exactly one synthetic default entry whose
\* decision is the model returned.
C7_EmptyRuleList ==
    (~RuleBased /\ last.op # "none") =>
        /\ ~last.raised
        /\ \E k \in DOMAIN router.models : last.model = Str(router.models[k])
        /\ last.evals = <<>>
        /\ last.op = "select_model_with_explanation" =>
              last.explanation = <<[rule_type |-> "default", rule_name |-> "default",
                                    rule_trigger |-> "None", decision |-> last.model.s]>>

\* A router built with rules=[] and default "Z" answered a request carrying
\* a task with a model of the built-in list.
C7_Witness ==
    /\ ~RuleBased
    /\ router.default = Str("Z")
    /\ router.models = DEFAULT_CHEAP_MODELS
    /\ last.op = "select_model_with_explanation"
    /\ last.request.task = Str("a")
    /\ last.model = Str("openai/gpt-4o-mini")
    /\ Len(last.explanation) = 1

\* C8: a None decision at any hop aborts the chain at once: no further rule
\* of that chain is evaluated; the outer loop still evaluates the next
\* top-level rule, or returns the default when none is left.
C8_NoneAbortsChain ==
    RuleCall =>
        \A k \in DOMAIN last.evals :
            last.evals[k].value.kind = "none" =>
                /\ (k = Len(last.evals) \/ last.evals[k + 1].top # last.evals[k].top)
                /\ WentOnAfter(last.evals[k].top)

\* The first chain hopped to a second rule that returned None: that chain
\* stopped there and the second top-level rule was evaluated next.
C8_Witness ==
    /\ last.op = "select_model"
    /\ Len(router.rules) = 2
    /\ Len(ChainEvals(1)) = 2
    /\ ChainEvals(1)[2].value.kind = "none"
    /\ Len(ChainEvals(2)) >= 1

\* The router without the names its registry does not know.
WithoutUnknown ==
    [router EXCEPT !.rules = SelectSeq(router.rules, LAMBDA e : ResolveRuleRef(e) # None)]

\* C9: a name in the rule list that the registry does not know is skipped
\* silently: nothing is raised, no rule is evaluated and no explanation
\* entry is produced for it, and the other entries are evaluated in order
\* as if it were not in the list (the default is returned when nothing
\* yields a model).
C9_UnknownNameSkipped ==
    RuleCall =>
        /\ ~last.raised
        /\ \A t \in 1..Len(router.rules) : ~Resolvable(t) => t \notin Tops
        /\ last.model = select_model_by_rules_from(WithoutUnknown, 1, SeenRequest).model
        /\ last.op = "select_model_with_explanation" =>
              last.explanation =
                  select_model_by_rules_with_explanation_from(
                      WithoutUnknown, 1, SeenRequest).explanation

\* An unknown name stood first in the list; the rule after it was evaluated
\* and the explanation has that rule's entry only.
C9_Witness ==
    /\ last.op = "select_model_with_explanation"
    /\ Len(router.rules) = 2
    /\ router.rules[1].kind = "str"
    /\ ~Resolvable(1)
    /\ Tops = {2}
    /\ ProducedByRule
    /\ Len(last.explanation) = 1

\* C10: on a rule-based router, for the same request, rules and registry,
\* select_model and select_model_with_explanation return the same model and
\* evaluate the same rules in the same order.
C10_SameModel ==
    /\ ExplainedRuleCall =>
          /\ last.model = select_model(router, last.request, 1).model
          /\ last.evals = select_model(router, last.request, 1).evals
    /\ (last.op = "select_model" /\ RuleBased) =>
          /\ last.model = select_model_with_explanation(router, last.request, 1).model
          /\ last.evals = select_model_with_explanation(router, last.request, 1).evals

\* An explained call that evaluated a cut chain and then got a model from
\* the second top-level rule, through a name the registry knows.
C10_Witness ==
    /\ ExplainedRuleCall
    /\ CutByDepth(1)
    /\ Len(router.rules) = 2
    /\ router.rules[2].kind = "str"
    /\ 2 \in Tops
    /\ ProducedByRule
    /\ last.model = select_model(router, last.request, 1).model

\* ===================================================== TaskRule mutators
\* Number of add_task_rule / remove_task_rule calls recorded.
MaxOps == 3

\* The keys and targets of the TaskRule the mutators are applied to.
MutatorKeys == {"a", "b"}
MutatorTargets == {Str("X"), Str("Y"), RuleObj(1)}
MutatorDicts == UNION {[D -> MutatorTargets] : D \in SUBSET MutatorKeys}

\* The requests the rule is evaluated on: no task, a key, another label.
MutatorRequests == {[isNone |-> FALSE, task |-> None]}
                     \cup {[isNone |-> FALSE, task |-> Str(t)] : t \in MutatorKeys \cup {"c"}}

\* remove_task_rule without the test "if task in self.triggers": del raises
\* KeyError for an absent key.
remove_task_rule_unguarded(d, task) ==
    IF task \in DOMAIN d
    THEN [raised |-> FALSE, triggers |-> [k \in DOMAIN d \ {task} |-> d[k]]]
    ELSE [raised |-> TRUE, triggers |-> d]

\* TaskRule.remove_task_rule(task) on the triggers dict d.
remove_task_rule(d, task) ==
    IF task \in DOMAIN d
    THEN [raised |-> FALSE, triggers |-> [k \in DOMAIN d \ {task} |-> d[k]]]
    ELSE [raised |-> FALSE, triggers |-> d]

\* add_task_rule that keeps the target of a key already present.
add_task_rule_keep_first(d, task, decision) ==
    [raised |-> FALSE,
     triggers |-> [k \in DOMAIN d \cup {task} |-> IF k \in DOMAIN d THEN d[k] ELSE decision]]

\* TaskRule.add_task_rule(task, decision): self.triggers[task] = decision
add_task_rule(d, task, decision) ==
    [raised |-> FALSE,
     triggers |-> [k \in DOMAIN d \cup {task} |-> IF k = task THEN decision ELSE d[k]]]

\* A TaskRule is built with some triggers; nothing was called yet.
InitTaskRule ==
    /\ triggers \in [{1} -> MutatorDicts]
    /\ rule_registry = <<>>
    /\ router = RouterInit("router", NoList, None, NoList)
    /\ history = [init |-> triggers[1], ops |-> <<>>]
    /\ the_rule = None
    /\ router_registry = <<>>
    /\ calls = <<>>
    /\ last = [op |-> "none", task |-> None, raised |-> FALSE,
               decision |-> Decision(None, None), before |-> triggers[1]]

\* rule.add_task_rule(task, decision)
AddTaskRule ==
    \E task \in MutatorKeys, decision \in MutatorTargets :
        LET out == add_task_rule(triggers[1], task, decision)
        IN /\ Len(history.ops) < MaxOps
           /\ triggers' = [triggers EXCEPT ![1] = out.triggers]
           /\ history' = [history EXCEPT !.ops =
                             Append(@, [op |-> "add", task |-> task, decision |-> decision])]
           /\ last' = [op |-> "add_task_rule", task |-> Str(task), raised |-> out.raised,
                       decision |-> Decision(decision, None), before |-> triggers[1]]
           /\ UNCHANGED <<rule_registry, router, the_rule, router_registry, calls>>

\* rule.remove_task_rule(task)
RemoveTaskRule ==
    \E task \in MutatorKeys :
        LET out == remove_task_rule(triggers[1], task)
        IN /\ Len(history.ops) < MaxOps
           /\ triggers' = [triggers EXCEPT ![1] = out.triggers]
           /\ history' = [history EXCEPT !.ops =
                             Append(@, [op |-> "remove", task |-> task, decision |-> None])]
           /\ last' = [op |-> "remove_task_rule", task |-> Str(task), raised |-> out.raised,
                       decision |-> Decision(None, None), before |-> triggers[1]]
           /\ UNCHANGED <<rule_registry, router, the_rule, router_registry, calls>>

\* rule.evaluate(request_data)
EvaluateTaskRule ==
    \E request_data \in MutatorRequests :
        /\ last' = [op |-> "evaluate", task |-> request_data.task, raised |-> FALSE,
                    decision |-> evaluate(1, request_data), before |-> triggers[1]]
        /\ UNCHANGED <<triggers, rule_registry, router, history, the_rule, router_registry, calls>>

NextTaskRule ==
    \/ AddTaskRule
    \/ RemoveTaskRule
    \/ EvaluateTaskRule

SpecTaskRule == InitTaskRule /\ [][NextTaskRule]_vars

\* The calls recorded that name the key.
CallsOn(key) == {n \in DOMAIN history.ops : history.ops[n].task = key}

\* The last call recorded that names the key.
LastCallOn(key) == history.ops[CHOOSE n \in CallsOn(key) : \A m \in CallsOn(key) : m <= n]

\* The key matches after the calls recorded: its last call was an add, or
\* it was never named and the rule was built with it.
KeyMatches(key) ==
    IF CallsOn(key) = {} THEN key \in DOMAIN history.init
    ELSE LastCallOn(key).op = "add"

\* The target of a key that matches: that of its last add, or the one the
\* rule was built with.
TargetOf(key) ==
    IF CallsOn(key) = {} THEN history.init[key] ELSE LastCallOn(key).decision

\* C11: TaskRule.evaluate is an exact-match lookup of the request's task in
\* the mapping the add_task_rule / remove_task_rule calls produced: no task
\* gives Decision(None, None); a task whose last add was not followed by a
\* remove gives Decision(target of that add, task); any other task gives
\* Decision(None, task). Removing a key that is not present changes nothing
\* and raises nothing.
C11_TaskRuleLookup ==
    /\ last.op = "evaluate" =>
          last.decision =
              IF last.task.kind = "none" THEN [value |-> None, trigger |-> None]
              ELSE IF last.task.s \in MutatorKeys /\ KeyMatches(last.task.s)
              THEN [value |-> TargetOf(last.task.s), trigger |-> last.task]
              ELSE [value |-> None, trigger |-> last.task]
    /\ last.op = "remove_task_rule" =>
          /\ ~last.raised
          /\ last.task.s \notin DOMAIN triggers[1]
          /\ last.task.s \notin DOMAIN last.before => triggers[1] = last.before

\* A key was added, added again with another target and evaluated: the
\* second target came back; before that a key was removed.
C11_Witness ==
    /\ last.op = "evaluate"
    /\ Len(history.ops) = 3
    /\ history.ops[1].op = "remove"
    /\ history.ops[2].op = "add"
    /\ history.ops[3].op = "add"
    /\ history.ops[2].task = history.ops[3].task
    /\ history.ops[2].decision # history.ops[3].decision
    /\ last.task = Str(history.ops[3].task)
    /\ last.decision.value = history.ops[3].decision

\* ================================================================ CodeRule
\* The largest number of matches of the code patterns, and of the not-code
\* patterns, a text has.
MaxCount == 6

\* CodeRule(name, code, not_code): the two targets.
CodeRuleTargets == {Str("X"), Str("Y"), RuleObj(1)}

\* The text _extract_text_content joins from the messages, as far as
\* evaluate reads it: whether it is empty, and how many matches the code
\* patterns and the not-code patterns find in it. An empty text has none.
CodeTexts ==
    {[empty |-> TRUE, code_matches |-> 0, not_code_matches |-> 0]}
      \cup {[empty |-> FALSE, code_matches |-> c, not_code_matches |-> n] :
                c \in 0..MaxCount, n \in 0..MaxCount}

\* _contains_code with the last test written "code_ratio > 0.5".
contains_code_strict_ratio(code_matches, not_code_matches) ==
    IF code_matches = 0 THEN FALSE
    ELSE IF code_matches >= 4 THEN TRUE
    ELSE IF not_code_matches >= 5 /\ code_matches < 3 THEN FALSE
    ELSE IF not_code_matches = 0 THEN code_matches >= 2
    ELSE LET total_matches == code_matches + not_code_matches
         IN 2 * code_matches > total_matches /\ code_matches >= 2

\* CodeRule._contains_code, from the two counts on. code_ratio is the float
\* code_matches / total_matches; with code_matches below 4 the quotient is
\* at least 0.5 exactly when 2 * code_matches >= total_matches.
contains_code(code_matches, not_code_matches) ==
    IF code_matches = 0 THEN FALSE
    ELSE IF code_matches >= 4 THEN TRUE
    ELSE IF not_code_matches >= 5 /\ code_matches < 3 THEN FALSE
    ELSE IF not_code_matches = 0 THEN code_matches >= 2
    ELSE LET total_matches == code_matches + not_code_matches
         IN 2 * code_matches >= total_matches /\ code_matches >= 2

\* CodeRule.evaluate on a request whose messages join to the text.
code_rule_evaluate(r, text) ==
    IF text.empty THEN Decision(r.not_code, Str("no_content"))
    ELSE IF contains_code(text.code_matches, text.not_code_matches)
    THEN Decision(r.code, Str("code_detected"))
    ELSE Decision(r.not_code, Str("no_code_detected"))

\* A CodeRule is built; nothing was called yet.
InitCodeRule ==
    /\ triggers = [i \in {1} |-> <<>>]
    /\ rule_registry = <<>>
    /\ router = RouterInit("router", NoList, None, NoList)
    /\ history = NoHistory
    /\ router_registry = <<>>
    /\ calls = <<>>
    /\ the_rule \in [code : CodeRuleTargets, not_code : CodeRuleTargets]
    /\ last = [op |-> "none", text |-> None, decision |-> Decision(None, None)]

\* rule.evaluate(request_data)
EvaluateCodeRule ==
    \E text \in CodeTexts :
        /\ last' = [op |-> "evaluate", text |-> text,
                    decision |-> code_rule_evaluate(the_rule, text)]
        /\ UNCHANGED <<triggers, rule_registry, router, history, the_rule, router_registry, calls>>

NextCodeRule == EvaluateCodeRule

SpecCodeRule == InitCodeRule /\ [][NextCodeRule]_vars

\* The cascade of five tests, first that applies, over the two counts.
CascadeSaysCode(c, n) ==
    CASE c = 0 -> FALSE
      [] c # 0 /\ c >= 4 -> TRUE
      [] c \in 1..3 /\ (n >= 5 /\ c < 3) -> FALSE
      [] c \in 1..3 /\ ~(n >= 5 /\ c < 3) /\ n = 0 -> c >= 2
      [] OTHER -> (2 * c >= c + n) /\ c >= 2

\* C12: on a text that is not empty CodeRule.evaluate gives the code target
\* exactly when the cascade over (code_matches, not_code_matches) says code:
\* (1) no code match: not code; (2) four or more: code; (3) five or more
\* not-code matches and fewer than three code matches: not code; (4) no
\* not-code match: code iff two or more code matches; (5) otherwise code iff
\* code matches are at least half of all matches and there are two or more.
C12_CodeCascade ==
    (last.op = "evaluate" /\ ~last.text.empty) =>
        last.decision =
            IF CascadeSaysCode(last.text.code_matches, last.text.not_code_matches)
            THEN [value |-> the_rule.code, trigger |-> Str("code_detected")]
            ELSE [value |-> the_rule.not_code, trigger |-> Str("no_code_detected")]

\* The ratio test decided: two code matches among four matches is code.
C12_Witness ==
    /\ last.op = "evaluate"
    /\ ~last.text.empty
    /\ last.text.code_matches = 2
    /\ last.text.not_code_matches = 2
    /\ the_rule.code # the_rule.not_code
    /\ last.decision.value = the_rule.code

\* ==================================================== CodeLanguageRule, regex
\* The largest score the patterns of one language reach on a text.
MaxScore == 4

\* The weakest maximum score _detect_language_regex accepts.
min_score == 3

\* The keys of self.language_patterns, in the order the dict holds them
\* (python and java of the twelve of the literal, then sql, html, css).
language_patterns == <<"python", "java", "sql", "html", "css">>
PatternLanguages == {language_patterns[n] : n \in DOMAIN language_patterns}

\* The same names in the order sorted() gives them.
sorted_names == <<"css", "html", "java", "python", "sql">>

priority_order == <<"sql", "html", "css">>

\* max(language_scores.values())
MaxOf(S) == CHOOSE m \in S : \A x \in S : x <= m

\* The first element of the sequence that is in the set, None if none is.
RECURSIVE FirstIn(_, _, _)
FirstIn(q, i, S) ==
    IF i > Len(q) THEN None
    ELSE IF q[i] \in S THEN Str(q[i])
    ELSE FirstIn(q, i + 1, S)

\* _detect_language_regex that returns best_languages[0] on a tie no priority
\* language is part of: the first in dict order.
detect_language_regex_dict_order(scores) ==
    LET language_scores == {l \in PatternLanguages : scores[l] > 0}
    IN IF language_scores = {} THEN None
       ELSE LET max_score == MaxOf({scores[l] : l \in language_scores})
                best_languages == {l \in language_scores : scores[l] = max_score}
            IN IF max_score < min_score THEN None
               ELSE IF Cardinality(best_languages) = 1
               THEN Str(CHOOSE l \in best_languages : TRUE)
               ELSE IF FirstIn(priority_order, 1, best_languages) # None
               THEN FirstIn(priority_order, 1, best_languages)
               ELSE FirstIn(language_patterns, 1, best_languages)

\* CodeLanguageRule._detect_language_regex, from the score each language's
\* patterns reach on the text.
detect_language_regex(scores) ==
    LET language_scores == {l \in PatternLanguages : scores[l] > 0}
    IN IF language_scores = {} THEN None
       ELSE LET max_score == MaxOf({scores[l] : l \in language_scores})
                best_languages == {l \in language_scores : scores[l] = max_score}
            IN IF max_score < min_score THEN None
               ELSE IF Cardinality(best_languages) = 1
               THEN Str(CHOOSE l \in best_languages : TRUE)
               ELSE IF FirstIn(priority_order, 1, best_languages) # None
               THEN FirstIn(priority_order, 1, best_languages)
               ELSE FirstIn(sorted_names, 1, best_languages)

\* A CodeLanguageRule is built and a text is at hand, of which the scores of
\* the languages are what matters; nothing was called yet.
InitRegex ==
    /\ triggers = [i \in {1} |-> <<>>]
    /\ rule_registry = <<>>
    /\ router = RouterInit("router", NoList, None, NoList)
    /\ history = NoHistory
    /\ router_registry = <<>>
    /\ calls = <<>>
    /\ the_rule = None
    /\ \E scores \in [PatternLanguages -> 0..MaxScore] :
          last = [op |-> "none", scores |-> scores, detected |-> None]

\* rule._detect_language_regex(text)
DetectLanguageRegex ==
    /\ last.op = "none"
    /\ last' = [op |-> "_detect_language_regex", scores |-> last.scores,
                detected |-> detect_language_regex(last.scores)]
    /\ UNCHANGED <<triggers, rule_registry, router, history, the_rule, router_registry, calls>>

NextRegex == DetectLanguageRegex

SpecRegex == InitRegex /\ [][NextRegex]_vars

\* The languages at the highest score of the last call.
Tied == {l \in PatternLanguages : \A k \in PatternLanguages : last.scores[k] <= last.scores[l]}

\* The name comes before the other in alphabetical order, or is the other.
NotAfter(a, b) ==
    \E i, j \in DOMAIN sorted_names : sorted_names[i] = a /\ sorted_names[j] = b /\ i <= j

\* C13: the regex phase detects nothing when no language scores 3 or more
\* (a language that scores 0 is no candidate); otherwise it returns a
\* language at the highest score: sql if sql is at it, else html, else css,
\* else the alphabetically first of the languages at it.
C13_RegexTieBreak ==
    last.op = "_detect_language_regex" =>
        IF \A l \in PatternLanguages : last.scores[l] < 3
        THEN last.detected = None
        ELSE /\ last.detected.kind = "str"
             /\ last.detected.s \in Tied
             /\ "sql" \in Tied => last.detected.s = "sql"
             /\ ("sql" \notin Tied /\ "html" \in Tied) => last.detected.s = "html"
             /\ ("sql" \notin Tied /\ "html" \notin Tied /\ "css" \in Tied)
                    => last.detected.s = "css"
             /\ (Tied \cap {"sql", "html", "css"} = {})
                    => \A l \in Tied : NotAfter(last.detected.s, l)

\* python and java tie at the highest score above css: java, the
\* alphabetically first, is detected, though python comes first in the dict.
C13_Witness ==
    /\ last.op = "_detect_language_regex"
    /\ last.scores["python"] = 4
    /\ last.scores["java"] = 4
    /\ last.scores["css"] = 3
    /\ last.scores["sql"] = 0
    /\ last.detected = Str("java")

\* ================================================= the delegated classifier
\* The labels a rule maps; of them only python has regex patterns. No two
\* labels are the same in lower case.
Labels == {"python", "Perl", "fr"}
LabelDicts == {[k \in D |-> Str("to-" \o k)] : D \in SUBSET Labels}
ClassifierDefaults == {None, Str("D")}
ClassifierRules == {"CodeLanguageRule", "NaturalLanguageRule", "AutoTaskRule"}

\* What chat.completions.create does when it is called: it raises, or the
\* reply has no content, or the content is a string.
Replies == {"Perl", "perl", " perl ", "PERL", "python", "fr", "FR",
            "none", "None", "cobol", ""}
Outcomes == {[kind |-> "raises", s |-> ""], [kind |-> "absent", s |-> ""]}
              \cup {[kind |-> "reply", s |-> s] : s \in Replies}

\* str.strip() and str.lower() on the labels and the replies.
strip(s) == IF s = " perl " THEN "perl" ELSE s
lower(s) ==
    CASE s \in {"Perl", "PERL"} -> "perl"
      [] s = "FR" -> "fr"
      [] s = "None" -> "none"
      [] OTHER -> s

\* The body of the try statement of _detect_language_llm / _detect_task_llm,
\* for a rule of the class: raised says an exception left it, calls counts
\* the calls of chat.completions.create.
detect_llm_try(class, candidates, configured, outcome) ==
    IF ~configured THEN [raised |-> FALSE, value |-> None, candidates |-> candidates, calls |-> 0]
    ELSE IF outcome.kind = "raises" THEN [raised |-> TRUE, value |-> None, candidates |-> candidates, calls |-> 1]
    ELSE IF outcome.kind = "absent"
    THEN IF class = "AutoTaskRule"
         THEN [raised |-> FALSE, value |-> None, candidates |-> candidates, calls |-> 1]
         ELSE [raised |-> TRUE, value |-> None, candidates |-> candidates, calls |-> 1]
    ELSE LET detected == lower(strip(outcome.s))
         IN IF detected = "none" THEN [raised |-> FALSE, value |-> None, candidates |-> candidates, calls |-> 1]
            ELSE IF \E k \in candidates : lower(k) = detected
            THEN [raised |-> FALSE, candidates |-> candidates, calls |-> 1,
                  value |-> Str(CHOOSE k \in candidates : lower(k) = detected)]
            ELSE [raised |-> FALSE, value |-> None, candidates |-> candidates, calls |-> 1]

\* The method without its "except Exception" clause.
detect_llm_no_except(class, candidates, configured, outcome) ==
    detect_llm_try(class, candidates, configured, outcome)

\* _detect_language_llm / _detect_task_llm: the try statement with its
\* "except Exception: return None".
detect_llm(class, candidates, configured, outcome) ==
    LET out == detect_llm_try(class, candidates, configured, outcome)
    IN IF out.raised
       THEN [raised |-> FALSE, value |-> None, candidates |-> candidates,
             calls |-> out.calls]
       ELSE out

NotAsked == [raised |-> FALSE, value |-> None, candidates |-> {}, calls |-> 0]

\* The outcome of evaluate: the decision unless it raised, whether the
\* classifier method was entered, the candidates it was given and how often
\* the classifier was called.
Evaluated(decision, asked, llm) ==
    [raised |-> llm.raised, decision |-> IF llm.raised THEN Decision(None, None) ELSE decision,
     asked |-> asked, candidates |-> llm.candidates, calls |-> llm.calls]

\* CodeLanguageRule.evaluate handing every key of the mapping to the
\* classifier method.
code_language_rule_evaluate_all_keys(r, text_empty, regex, configured, outcome) ==
    IF text_empty THEN Evaluated(Decision(r.default, None), FALSE, NotAsked)
    ELSE IF Truthy(regex) /\ regex.s \in DOMAIN r.language_mappings
    THEN Evaluated(Decision(r.language_mappings[regex.s], None), FALSE, NotAsked)
    ELSE LET unmapped_languages == DOMAIN r.language_mappings
         IN IF r.enable_llm_fallback /\ DOMAIN r.language_mappings # {}
                  /\ unmapped_languages # {}
            THEN LET llm == detect_llm(r.class, unmapped_languages, configured, outcome)
                 IN IF Truthy(llm.value) /\ llm.value.s \in DOMAIN r.language_mappings
                    THEN Evaluated(Decision(r.language_mappings[llm.value.s], None), TRUE, llm)
                    ELSE Evaluated(Decision(r.default, None), TRUE, llm)
            ELSE Evaluated(Decision(r.default, None), FALSE, NotAsked)

\* CodeLanguageRule.evaluate; regex is what _detect_language_regex returns.
code_language_rule_evaluate(r, text_empty, regex, configured, outcome) ==
    IF text_empty THEN Evaluated(Decision(r.default, None), FALSE, NotAsked)
    ELSE IF Truthy(regex) /\ regex.s \in DOMAIN r.language_mappings
    THEN Evaluated(Decision(r.language_mappings[regex.s], None), FALSE, NotAsked)
    ELSE LET unmapped_languages == DOMAIN r.language_mappings \ PatternLanguages
         IN IF r.enable_llm_fallback /\ DOMAIN r.language_mappings # {}
                  /\ unmapped_languages # {}
            THEN LET llm == detect_llm(r.class, unmapped_languages, configured, outcome)
                 IN IF Truthy(llm.value) /\ llm.value.s \in DOMAIN r.language_mappings
                    THEN Evaluated(Decision(r.language_mappings[llm.value.s], None), TRUE, llm)
                    ELSE Evaluated(Decision(r.default, None), TRUE, llm)
            ELSE Evaluated(Decision(r.default, None), FALSE, NotAsked)

\* NaturalLanguageRule.evaluate
natural_language_rule_evaluate(r, text_empty, configured, outcome) ==
    IF text_empty THEN Evaluated(Decision(r.default, Str("no_content")), FALSE, NotAsked)
    ELSE LET llm == detect_llm(r.class, DOMAIN r.language_mappings, configured, outcome)
         IN IF Truthy(llm.value) /\ llm.value.s \in DOMAIN r.language_mappings
            THEN Evaluated(Decision(r.language_mappings[llm.value.s], llm.value), TRUE, llm)
            ELSE Evaluated(Decision(r.default, Str("no_language_detected")), TRUE, llm)

\* AutoTaskRule.evaluate; its triggers dict is the field language_mappings.
auto_task_rule_evaluate(r, text_empty, configured, outcome) ==
    IF text_empty THEN Evaluated(Decision(r.default, None), FALSE, NotAsked)
    ELSE LET llm == detect_llm(r.class, DOMAIN r.language_mappings, configured, outcome)
         IN IF Truthy(llm.value) /\ llm.value.s \in DOMAIN r.language_mappings
            THEN Evaluated(Decision(r.language_mappings[llm.value.s], llm.value), TRUE, llm)
            ELSE Evaluated(Decision(r.default, None), TRUE, llm)

\* A rule of one of the three classes is built; nothing was called yet.
InitClassifier ==
    /\ triggers = [i \in {1} |-> <<>>]
    /\ rule_registry = <<>>
    /\ router = RouterInit("router", NoList, None, NoList)
    /\ history = NoHistory
    /\ router_registry = <<>>
    /\ calls = <<>>
    /\ the_rule \in [class : ClassifierRules, language_mappings : LabelDicts,
                     default : ClassifierDefaults, enable_llm_fallback : BOOLEAN]
    /\ the_rule.class # "CodeLanguageRule" => the_rule.enable_llm_fallback
    /\ last = [op |-> "none", text_empty |-> TRUE, regex |-> None, configured |-> FALSE,
               outcome |-> [kind |-> "raises", s |-> ""],
               out |-> Evaluated(Decision(None, None), FALSE, NotAsked)]

EvaluateCodeLanguageRule ==
    \E text_empty, configured \in BOOLEAN, outcome \in Outcomes,
       regex \in {None, Str("python"), Str("java")} :
        /\ the_rule.class = "CodeLanguageRule"
        /\ last' = [op |-> "evaluate", text_empty |-> text_empty, regex |-> regex,
                    configured |-> configured, outcome |-> outcome,
                    out |-> code_language_rule_evaluate(the_rule, text_empty, regex,
                                                        configured, outcome)]
        /\ UNCHANGED <<triggers, rule_registry, router, history, the_rule, router_registry, calls>>

EvaluateNaturalLanguageRule ==
    \E text_empty, configured \in BOOLEAN, outcome \in Outcomes :
        /\ the_rule.class = "NaturalLanguageRule"
        /\ last' = [op |-> "evaluate", text_empty |-> text_empty, regex |-> None,
                    configured |-> configured, outcome |-> outcome,
                    out |-> natural_language_rule_evaluate(the_rule, text_empty,
                                                           configured, outcome)]
        /\ UNCHANGED <<triggers, rule_registry, router, history, the_rule, router_registry, calls>>

EvaluateAutoTaskRule ==
    \E text_empty, configured \in BOOLEAN, outcome \in Outcomes :
        /\ the_rule.class = "AutoTaskRule"
        /\ last' = [op |-> "evaluate", text_empty |-> text_empty, regex |-> None,
                    configured |-> configured, outcome |-> outcome,
                    out |-> auto_task_rule_evaluate(the_rule, text_empty, configured, outcome)]
        /\ UNCHANGED <<triggers, rule_registry, router, history, the_rule, router_registry, calls>>

NextClassifier ==
    \/ EvaluateCodeLanguageRule
    \/ EvaluateNaturalLanguageRule
    \/ EvaluateAutoTaskRule

SpecClassifier == InitClassifier /\ [][NextClassifier]_vars

\* The labels the last call offered the classifier.
Candidates ==
    IF the_rule.class = "CodeLanguageRule"
    THEN DOMAIN the_rule.language_mappings \ PatternLanguages
    ELSE DOMAIN the_rule.language_mappings

\* The classifier the last call delegated to failed: it was not configured,
\* raised, gave no reply, or gave one that is neither "none" nor, whatever
\* the case of its letters, a candidate.
ClassifierFailed ==
    /\ last.out.asked
    /\ \/ ~last.configured
       \/ last.outcome.kind \in {"raises", "absent"}
       \/ /\ last.outcome.kind = "reply"
          /\ last.outcome.s \notin {"none", "None"}
          /\ \A k \in Candidates :
                last.outcome.s \notin {t \in Replies : lower(strip(t)) = lower(k)}

\* C14: whenever the classifier a CodeLanguageRule, NaturalLanguageRule or
\* AutoTaskRule delegates to fails, evaluate raises nothing and returns a
\* Decision with the rule's default; evaluate never raises; and without
\* credentials the classifier is not called.
C14_ClassifierFailureAbsorbed ==
    last.op = "evaluate" =>
        /\ ~last.out.raised
        /\ ~last.configured => last.out.calls = 0
        /\ ClassifierFailed => last.out.decision.value = the_rule.default

\* A configured classifier was called once and gave no reply; the rule
\* maps a label and has a default, which came back.
C14_Witness ==
    /\ last.op = "evaluate"
    /\ last.out.asked
    /\ last.configured
    /\ last.out.calls = 1
    /\ last.outcome.kind = "absent"
    /\ the_rule.class = "NaturalLanguageRule"
    /\ the_rule.default = Str("D")
    /\ last.out.decision.value = Str("D")

\* ======================= MessageLengthRule and ConversationContextRule
\* The largest threshold a constructor or update_thresholds is given (the
\* smallest is -1), and the longest message list of a request.
MaxThreshold == 3
MaxMessages == 4

\* A threshold argument of update_thresholds: not given (None) or a number.
NotGiven == [given |-> FALSE, v |-> 0]
Given(n) == [given |-> TRUE, v |-> n]
ThresholdArgs == -1..MaxThreshold
OptionalThresholdArgs == {NotGiven} \cup {Given(n) : n \in ThresholdArgs}

\* A message content: the key is absent, or the value is no str, or it is a
\* str of so many tokens (each one character long; no token: the empty str).
NoContent == [kind |-> "absent", tokens |-> 0]
NonStrContent == [kind |-> "other", tokens |-> 0]
Text(k) == [kind |-> "str", tokens |-> k]

\* An entry of request_data["messages"]: a dict with or without the keys
\* role and content, or something that is no dict.
Message(role, content) == [is_dict |-> TRUE, role |-> role, content |-> content]
NotADict == [is_dict |-> FALSE, role |-> None, content |-> NoContent]

\* request_data: its messages (the key may be absent) and another field.
Request(messages, task) == [has_messages |-> TRUE, messages |-> messages, task |-> task]
NoMessagesKey(task) == [has_messages |-> FALSE, messages |-> <<>>, task |-> task]

\* request_data.get('messages', [])
get_messages(request_data) ==
    IF request_data.has_messages THEN request_data.messages ELSE <<>>

\* message.get('role', 'user')
get_role(message) == IF message.role = None THEN Str("user") ELSE message.role

\* str(n) for n >= 0, as the f-strings of the triggers format a count.
digits == <<"0", "1", "2", "3", "4", "5", "6", "7", "8", "9">>
RECURSIVE str_int(_)
str_int(n) ==
    IF n < 10 THEN digits[n + 1]
    ELSE str_int(n \div 10) \o digits[(n % 10) + 1]

\* extraction that leaves out the test of the role.
RECURSIVE message_length_text_parts_all_roles(_, _)
message_length_text_parts_all_roles(messages, i) ==
    IF i > Len(messages) THEN <<>>
    ELSE LET message == messages[i]
             rest == message_length_text_parts_all_roles(messages, i + 1)
         IN IF message.is_dict /\ message.content.kind = "str"
            THEN <<message.content>> \o rest
            ELSE rest

\* MessageLengthRule._extract_text_content: the text_parts, which the method
\* joins with "\n"; the joined text is held as the sequence of its parts.
RECURSIVE message_length_text_parts(_, _)
message_length_text_parts(messages, i) ==
    IF i > Len(messages) THEN <<>>
    ELSE LET message == messages[i]
             rest == message_length_text_parts(messages, i + 1)
         IN IF message.is_dict /\ message.content.kind # "absent"
            THEN IF get_role(message) = Str("user") /\ message.content.kind = "str"
                 THEN <<message.content>> \o rest
                 ELSE rest
            ELSE rest

RECURSIVE SumTokens(_, _)
SumTokens(parts, i) == IF i > Len(parts) THEN 0 ELSE parts[i].tokens + SumTokens(parts, i + 1)

\* MessageLengthRule._count_tokens on the joined text: 0 for the empty
\* text, else the tokens of the parts and one for each "\n" between them.
count_tokens(parts) ==
    IF Len(parts) = 0 \/ (Len(parts) = 1 /\ parts[1].tokens = 0) THEN 0
    ELSE SumTokens(parts, 1) + (Len(parts) - 1)

\* MessageLengthRule.evaluate with "<=" in the first test.
message_length_rule_evaluate_inclusive(r, request_data) ==
    LET text_content == message_length_text_parts(get_messages(request_data), 1)
        total_tokens == count_tokens(text_content)
    IN [count |-> total_tokens, chars |-> 0,
        decision |->
          IF total_tokens <= r.short_threshold
          THEN Decision(r.short_model, Str("short_message_" \o str_int(total_tokens) \o "_tokens"))
          ELSE IF total_tokens < r.long_threshold
          THEN Decision(r.medium_model, Str("medium_message_" \o str_int(total_tokens) \o "_tokens"))
          ELSE Decision(r.long_model, Str("long_message_" \o str_int(total_tokens) \o "_tokens"))]

\* MessageLengthRule.evaluate
message_length_rule_evaluate(r, request_data) ==
    LET text_content == message_length_text_parts(get_messages(request_data), 1)
        total_tokens == count_tokens(text_content)
    IN [count |-> total_tokens, chars |-> 0,
        decision |->
          IF total_tokens < r.short_threshold
          THEN Decision(r.short_model, Str("short_message_" \o str_int(total_tokens) \o "_tokens"))
          ELSE IF total_tokens < r.long_threshold
          THEN Decision(r.medium_model, Str("medium_message_" \o str_int(total_tokens) \o "_tokens"))
          ELSE Decision(r.long_model, Str("long_message_" \o str_int(total_tokens) \o "_tokens"))]

\* ConversationContextRule._analyze_conversation_context: message_count and
\* total_chars.
RECURSIVE analyze_conversation_context(_, _)
analyze_conversation_context(messages, i) ==
    IF i > Len(messages) THEN [message_count |-> 0, total_chars |-> 0]
    ELSE LET message == messages[i]
             rest == analyze_conversation_context(messages, i + 1)
         IN IF message.is_dict /\ message.content.kind # "absent"
                  /\ message.content.kind = "str"
            THEN [message_count |-> rest.message_count + 1,
                  total_chars |-> rest.total_chars + message.content.tokens]
            ELSE rest

\* The stage ConversationContextRule.evaluate and get_conversation_stage
\* find for a message count.
conversation_stage(r, message_count) ==
    IF message_count < r.new_threshold THEN "new"
    ELSE IF message_count < r.deep_threshold THEN "developing"
    ELSE "deep"

\* ConversationContextRule.evaluate
conversation_context_rule_evaluate(r, request_data) ==
    LET context_info == analyze_conversation_context(get_messages(request_data), 1)
        message_count == context_info.message_count
        total_chars == context_info.total_chars
        stage == conversation_stage(r, message_count)
        model == IF stage = "new" THEN r.new_model
                 ELSE IF stage = "developing" THEN r.developing_model
                 ELSE r.deep_model
    IN [count |-> message_count, chars |-> total_chars,
        decision |-> Decision(model, Str(stage \o "_conversation_" \o str_int(message_count)
                                           \o "_messages_" \o str_int(total_chars) \o "_chars"))]

\* ConversationContextRule.get_conversation_stage
get_conversation_stage(r, request_data) ==
    LET context_info == analyze_conversation_context(get_messages(request_data), 1)
    IN [count |-> context_info.message_count, chars |-> context_info.total_chars,
        decision |-> Decision(Str(conversation_stage(r, context_info.message_count)), None)]


\* The constructor without the test for negative thresholds.
message_length_rule_init_no_sign_test(short_threshold, long_threshold) ==
    IF short_threshold >= long_threshold THEN [raised |-> TRUE, object |-> None]
    ELSE [raised |-> FALSE,
          object |-> [class |-> "MessageLengthRule",
                      short_threshold |-> short_threshold, long_threshold |-> long_threshold,
                      short_model |-> Str("S"), medium_model |-> Str("M"),
                      long_model |-> Str("L")]]

\* MessageLengthRule.__init__ with the default encoding: ValueError, or the
\* object.
message_length_rule_init(short_threshold, long_threshold) ==
    IF short_threshold >= long_threshold THEN [raised |-> TRUE, object |-> None]
    ELSE IF short_threshold < 0 \/ long_threshold < 0 THEN [raised |-> TRUE, object |-> None]
    ELSE [raised |-> FALSE,
          object |-> [class |-> "MessageLengthRule",
                      short_threshold |-> short_threshold, long_threshold |-> long_threshold,
                      short_model |-> Str("S"), medium_model |-> Str("M"),
                      long_model |-> Str("L")]]

\* ConversationContextRule.__init__
conversation_context_rule_init(new_threshold, deep_threshold) ==
    IF new_threshold >= deep_threshold THEN [raised |-> TRUE, object |-> None]
    ELSE IF new_threshold < 1 \/ deep_threshold < 1 THEN [raised |-> TRUE, object |-> None]
    ELSE [raised |-> FALSE,
          object |-> [class |-> "ConversationContextRule",
                      new_threshold |-> new_threshold, deep_threshold |-> deep_threshold,
                      new_model |-> Str("S"), developing_model |-> Str("M"),
                      deep_model |-> Str("L")]]

\* update_thresholds that stores the short threshold before it validates.
message_length_update_thresholds_store_first(r, short_threshold, long_threshold) ==
    LET new_short == IF short_threshold.given THEN short_threshold.v ELSE r.short_threshold
        new_long == IF long_threshold.given THEN long_threshold.v ELSE r.long_threshold
        stored == [r EXCEPT !.short_threshold = new_short]
    IN IF new_short >= new_long THEN [raised |-> TRUE, object |-> stored]
       ELSE IF new_short < 0 \/ new_long < 0 THEN [raised |-> TRUE, object |-> stored]
       ELSE [raised |-> FALSE,
             object |-> [r EXCEPT !.short_threshold = new_short, !.long_threshold = new_long]]

\* MessageLengthRule.update_thresholds
message_length_update_thresholds(r, short_threshold, long_threshold) ==
    LET new_short == IF short_threshold.given THEN short_threshold.v ELSE r.short_threshold
        new_long == IF long_threshold.given THEN long_threshold.v ELSE r.long_threshold
    IN IF new_short >= new_long THEN [raised |-> TRUE, object |-> r]
       ELSE IF new_short < 0 \/ new_long < 0 THEN [raised |-> TRUE, object |-> r]
       ELSE [raised |-> FALSE,
             object |-> [r EXCEPT !.short_threshold = new_short, !.long_threshold = new_long]]

\* ConversationContextRule.update_thresholds
conversation_context_update_thresholds(r, new_threshold, deep_threshold) ==
    LET new_new == IF new_threshold.given THEN new_threshold.v ELSE r.new_threshold
        new_deep == IF deep_threshold.given THEN deep_threshold.v ELSE r.deep_threshold
    IN IF new_new >= new_deep THEN [raised |-> TRUE, object |-> r]
       ELSE IF new_new < 1 \/ new_deep < 1 THEN [raised |-> TRUE, object |-> r]
       ELSE [raised |-> FALSE,
             object |-> [r EXCEPT !.new_threshold = new_new, !.deep_threshold = new_deep]]

\* The requests of the threshold specification: so many user messages of so
\* many tokens each.
RECURSIVE Repeat(_, _)
Repeat(x, n) == IF n = 0 THEN <<>> ELSE <<x>> \o Repeat(x, n - 1)
CountRequests ==
    {Request(Repeat(Message(Str("user"), Text(k)), n), None) : n \in 0..MaxMessages, k \in 0..2}

\* The longest message list of a request with messages of every kind.
MaxList == 2

\* The kinds of entries of a message list: user, system, assistant messages
\* and one without a role, with str contents; a user message whose content
\* is no str; an entry that is no dict.
MessageKinds ==
    {Message(Str("user"), Text(1)), Message(Str("system"), Text(1)),
     Message(Str("assistant"), Text(2)), Message(None, Text(1)),
     Message(Str("user"), NonStrContent), NotADict}
MessageRequests ==
    {Request(q, task) : q \in SeqsUpTo(MessageKinds, MaxList), task \in {None, Str("a")}}
      \cup {NoMessagesKey(None)}

\* The requests the rules are evaluated on.
EvaluatedRequests == CountRequests \cup MessageRequests

\* A call on the rule under study, or its construction: the class, the
\* arguments, the outcome and the object before the call.
ThresholdCall(op, class, low, high, request_data, raised, out, before) ==
    [op |-> op, class |-> class, low |-> low, high |-> high, request |-> request_data,
     raised |-> raised, decision |-> out.decision, count |-> out.count, chars |-> out.chars,
     before |-> before]
NoOut == [count |-> 0, chars |-> 0, decision |-> Decision(None, None)]

\* No rule is built yet.
InitThreshold ==
    /\ triggers = [i \in {1} |-> <<>>]
    /\ rule_registry = <<>>
    /\ router = RouterInit("router", NoList, None, NoList)
    /\ history = NoHistory
    /\ router_registry = <<>>
    /\ calls = <<>>
    /\ the_rule = None
    /\ last = ThresholdCall("none", "", NotGiven, NotGiven, NoMessagesKey(None),
                            FALSE, NoOut, None)

\* MessageLengthRule(name, short_threshold, long_threshold, ...)
ConstructMessageLengthRule ==
    \E short_threshold, long_threshold \in ThresholdArgs :
        LET out == message_length_rule_init(short_threshold, long_threshold)
        IN /\ the_rule = None
           /\ the_rule' = out.object
           /\ last' = ThresholdCall("__init__", "MessageLengthRule", Given(short_threshold),
                                    Given(long_threshold), NoMessagesKey(None),
                                    out.raised, NoOut, the_rule)
           /\ UNCHANGED <<triggers, rule_registry, router, history, router_registry, calls>>

\* ConversationContextRule(name, new_threshold, deep_threshold, ...)
ConstructConversationContextRule ==
    \E new_threshold, deep_threshold \in ThresholdArgs :
        LET out == conversation_context_rule_init(new_threshold, deep_threshold)
        IN /\ the_rule = None
           /\ the_rule' = out.object
           /\ last' = ThresholdCall("__init__", "ConversationContextRule", Given(new_threshold),
                                    Given(deep_threshold), NoMessagesKey(None),
                                    out.raised, NoOut, the_rule)
           /\ UNCHANGED <<triggers, rule_registry, router, history, router_registry, calls>>

\* rule.update_thresholds(short_threshold, long_threshold)
UpdateMessageLengthThresholds ==
    \E short_threshold, long_threshold \in OptionalThresholdArgs :
        /\ the_rule # None
        /\ the_rule.class = "MessageLengthRule"
        /\ LET out == message_length_update_thresholds(the_rule, short_threshold, long_threshold)
           IN /\ the_rule' = out.object
              /\ last' = ThresholdCall("update_thresholds", the_rule.class, short_threshold,
                                       long_threshold, NoMessagesKey(None),
                                       out.raised, NoOut, the_rule)
        /\ UNCHANGED <<triggers, rule_registry, router, history, router_registry, calls>>

\* rule.update_thresholds(new_threshold, deep_threshold)
UpdateConversationContextThresholds ==
    \E new_threshold, deep_threshold \in OptionalThresholdArgs :
        /\ the_rule # None
        /\ the_rule.class = "ConversationContextRule"
        /\ LET out == conversation_context_update_thresholds(the_rule, new_threshold,
                                                              deep_threshold)
           IN /\ the_rule' = out.object
              /\ last' = ThresholdCall("update_thresholds", the_rule.class, new_threshold,
                                       deep_threshold, NoMessagesKey(None),
                                       out.raised, NoOut, the_rule)
        /\ UNCHANGED <<triggers, rule_registry, router, history, router_registry, calls>>

\* rule.evaluate(request_data) on a MessageLengthRule
EvaluateMessageLengthRule ==
    \E request_data \in EvaluatedRequests :
        /\ the_rule # None
        /\ the_rule.class = "MessageLengthRule"
        /\ last' = ThresholdCall("evaluate", the_rule.class, NotGiven, NotGiven, request_data,
                                 FALSE, message_length_rule_evaluate(the_rule, request_data),
                                 the_rule)
        /\ UNCHANGED <<triggers, rule_registry, router, history, the_rule, router_registry, calls>>

\* rule.evaluate(request_data) on a ConversationContextRule
EvaluateConversationContextRule ==
    \E request_data \in EvaluatedRequests :
        /\ the_rule # None
        /\ the_rule.class = "ConversationContextRule"
        /\ last' = ThresholdCall("evaluate", the_rule.class, NotGiven, NotGiven, request_data,
                                 FALSE, conversation_context_rule_evaluate(the_rule, request_data),
                                 the_rule)
        /\ UNCHANGED <<triggers, rule_registry, router, history, the_rule, router_registry, calls>>

\* rule.get_conversation_stage(request_data)
GetConversationStage ==
    \E request_data \in EvaluatedRequests :
        /\ the_rule # None
        /\ the_rule.class = "ConversationContextRule"
        /\ last' = ThresholdCall("get_conversation_stage", the_rule.class, NotGiven, NotGiven,
                                 request_data, FALSE,
                                 get_conversation_stage(the_rule, request_data), the_rule)
        /\ UNCHANGED <<triggers, rule_registry, router, history, the_rule, router_registry, calls>>

NextThreshold ==
    \/ ConstructMessageLengthRule
    \/ ConstructConversationContextRule
    \/ UpdateMessageLengthThresholds
    \/ UpdateConversationContextThresholds
    \/ EvaluateMessageLengthRule
    \/ EvaluateConversationContextRule
    \/ GetConversationStage

SpecThreshold == InitThreshold /\ [][NextThreshold]_vars

\* The two thresholds and the three targets of a rule of either class.
Low(r) == IF r.class = "MessageLengthRule" THEN r.short_threshold ELSE r.new_threshold
High(r) == IF r.class = "MessageLengthRule" THEN r.long_threshold ELSE r.deep_threshold
LowTarget(r) == IF r.class = "MessageLengthRule" THEN r.short_model ELSE r.new_model
MiddleTarget(r) == IF r.class = "MessageLengthRule" THEN r.medium_model ELSE r.developing_model
HighTarget(r) == IF r.class = "MessageLengthRule" THEN r.long_model ELSE r.deep_model

\* The decimal numerals of the counts a request of the model reaches.
Decimal == <<"0", "1", "2", "3", "4", "5", "6", "7", "8", "9", "10", "11", "12", "13",
             "14", "15", "16", "17", "18", "19", "20">>

\* C15: a count below low selects the short / new target, a count equal to
\* low and any count from low up to but not high the medium / developing
\* target, a count equal to or above high the long / deep target; the
\* trigger of a MessageLengthRule is "<bucket>_message_<count>_tokens".
C15_ThresholdBoundaries ==
    last.op = "evaluate" =>
        /\ last.count < Low(the_rule) => last.decision.value = LowTarget(the_rule)
        /\ last.count = Low(the_rule) => last.decision.value = MiddleTarget(the_rule)
        /\ (Low(the_rule) <= last.count /\ last.count < High(the_rule))
              => last.decision.value = MiddleTarget(the_rule)
        /\ last.count >= High(the_rule) => last.decision.value = HighTarget(the_rule)
        /\ last.class = "MessageLengthRule" =>
              \E bucket \in {"short", "medium", "long"} :
                 /\ last.decision.trigger
                       = Str(bucket \o "_message_" \o Decimal[last.count + 1] \o "_tokens")
                 /\ bucket = "short" <=> last.count < Low(the_rule)
                 /\ bucket = "long" <=> last.count >= High(the_rule)

\* A message of exactly short_threshold tokens went to the medium target.
C15_Witness ==
    /\ last.op = "evaluate"
    /\ last.class = "MessageLengthRule"
    /\ the_rule.short_threshold = 2
    /\ last.count = 2
    /\ last.decision = Decision(Str("M"), Str("medium_message_2_tokens"))

C17_UpdateThresholds ==
    /\ the_rule # None => Low(the_rule) < High(the_rule)
    /\ last.op = "update_thresholds" =>
          /\ last.raised => the_rule = last.before
          /\ (~last.raised /\ ~last.low.given) => Low(the_rule) = Low(last.before)
          /\ (~last.raised /\ ~last.high.given) => High(the_rule) = High(last.before)
          /\ (~last.raised /\ last.low.given) => Low(the_rule) = last.low.v
          /\ (~last.raised /\ last.high.given) => High(the_rule) = last.high.v

\* An update that gave only a short threshold not below the stored long one
\* raised, and the short threshold is the one stored before.
C17_Witness ==
    /\ last.op = "update_thresholds"
    /\ last.class = "MessageLengthRule"
    /\ last.raised
    /\ last.low.given
    /\ ~last.high.given
    /\ last.low.v >= High(last.before)
    /\ last.low.v # Low(last.before)
    /\ the_rule = last.before


\* C18 as stated: the message count a ConversationContextRule buckets, in
\* evaluate and in get_conversation_stage, is the length of the request's
\* message list.
C18_RawMessageCount ==
    (last.op \in {"evaluate", "get_conversation_stage"}
        /\ last.class = "ConversationContextRule")
        => last.count = Len(get_messages(last.request))

\* The request with nothing but its user contents: the str contents of the
\* dict messages whose role, "user" where the key is absent, is "user", each
\* as a user message, in the same order.
RECURSIVE UserMessagesOf(_, _)
UserMessagesOf(messages, i) ==
    IF i > Len(messages) THEN <<>>
    ELSE IF /\ messages[i].is_dict
            /\ messages[i].role \in {None, Str("user")}
            /\ messages[i].content.kind = "str"
    THEN <<Message(Str("user"), messages[i].content)>> \o UserMessagesOf(messages, i + 1)
    ELSE UserMessagesOf(messages, i + 1)
UserContentsOnly(request_data) == Request(UserMessagesOf(get_messages(request_data), 1), None)

\* C19: the decision of a MessageLengthRule, value and trigger, is the one
\* it gives the request reduced to its user contents in their order; so two
\* requests with the same user contents in the same order get the same
\* decision, whatever system or assistant messages and other fields they
\* hold.
C19_UserContentOnly ==
    (last.op = "evaluate" /\ last.class = "MessageLengthRule") =>
        last.decision = message_length_rule_evaluate(the_rule, UserContentsOnly(last.request)).decision

\* A request with a system message, a user message and another field was
\* evaluated; the user message alone gives another bucket than both
\* contents would.
C19_Witness ==
    /\ last.op = "evaluate"
    /\ last.class = "MessageLengthRule"
    /\ last.request.task = Str("a")
    /\ last.request.messages = <<Message(Str("system"), Text(1)), Message(Str("user"), Text(1))>>
    /\ the_rule.short_threshold = 2
    /\ last.decision = Decision(Str("S"), Str("short_message_1_tokens"))

\* =============================================================== registries
\* The rule objects and the router objects that are registered: objects 1
\* and 2 of either kind have the same name, object 3 another.
RegistryObjects == {1, 2, 3}
name_of(o) == IF o = 3 THEN "n2" ELSE "n1"
RegistryNames == {"n1", "n2", "n3"}
RouterObj(i) == [kind |-> "router", s |-> "", id |-> i]

\* register that keeps the object a name already has.
register_keep_first(registry, o) ==
    [n \in DOMAIN registry \cup {name_of(o)} |->
        IF n \in DOMAIN registry THEN registry[n] ELSE o]

\* register_rule(rule): _rule_registry[rule.name] = rule, and
\* register_router(router): _router_registry[router.name] = router
register(registry, o) ==
    [n \in DOMAIN registry \cup {name_of(o)} |-> IF n = name_of(o) THEN o ELSE registry[n]]

\* get_router(name): _router_registry.get(name)
registry_get_router(name) ==
    IF name \in DOMAIN router_registry THEN RouterObj(router_registry[name]) ELSE None

\* list_rules() and list_routers(): the keys, as a set.
list_rules == DOMAIN rule_registry
list_routers == DOMAIN router_registry

\* A call of one of the eight registry functions and what it returned.
RegistryCall(op, name, result, names) ==
    [op |-> op, name |-> name, result |-> result, names |-> names]

\* Both registries are empty, as the modules define them.
InitRegistry ==
    /\ triggers = [i \in {1} |-> <<>>]
    /\ rule_registry = <<>>
    /\ router_registry = <<>>
    /\ calls = <<>>
    /\ router = RouterInit("router", NoList, None, NoList)
    /\ the_rule = None
    /\ history = NoHistory
    /\ last = RegistryCall("none", "", None, {})

\* The call is appended to the calls made.
Logged(registry, op, name, o) ==
    [history EXCEPT !.ops = Append(@, [registry |-> registry, op |-> op, name |-> name,
                                       object |-> o])]

CallRegisterRule ==
    \E o \in RegistryObjects :
        /\ Len(history.ops) < MaxOps
        /\ rule_registry' = register(rule_registry, o)
        /\ history' = Logged("rule", "register", name_of(o), o)
        /\ last' = RegistryCall("register_rule", name_of(o), None, {})
        /\ UNCHANGED <<triggers, router, the_rule, router_registry, calls>>

CallClearRules ==
    /\ Len(history.ops) < MaxOps
    /\ rule_registry' = <<>>
    /\ history' = Logged("rule", "clear", "", 0)
    /\ last' = RegistryCall("clear_rules", "", None, {})
    /\ UNCHANGED <<triggers, router, the_rule, router_registry, calls>>

CallGetRule ==
    \E name \in RegistryNames :
        /\ last' = RegistryCall("get_rule", name, registry_get_rule(name), {})
        /\ UNCHANGED <<triggers, rule_registry, router, history, the_rule, router_registry, calls>>

CallListRules ==
    /\ last' = RegistryCall("list_rules", "", None, list_rules)
    /\ UNCHANGED <<triggers, rule_registry, router, history, the_rule, router_registry, calls>>

CallRegisterRouter ==
    \E o \in RegistryObjects :
        /\ Len(history.ops) < MaxOps
        /\ router_registry' = register(router_registry, o)
        /\ history' = Logged("router", "register", name_of(o), o)
        /\ last' = RegistryCall("register_router", name_of(o), None, {})
        /\ UNCHANGED <<triggers, rule_registry, router, the_rule, calls>>

CallClearRouters ==
    /\ Len(history.ops) < MaxOps
    /\ router_registry' = <<>>
    /\ history' = Logged("router", "clear", "", 0)
    /\ last' = RegistryCall("clear_routers", "", None, {})
    /\ UNCHANGED <<triggers, rule_registry, router, the_rule, calls>>

CallGetRouter ==
    \E name \in RegistryNames :
        /\ last' = RegistryCall("get_router", name, registry_get_router(name), {})
        /\ UNCHANGED <<triggers, rule_registry, router, history, the_rule, router_registry, calls>>

CallListRouters ==
    /\ last' = RegistryCall("list_routers", "", None, list_routers)
    /\ UNCHANGED <<triggers, rule_registry, router, history, the_rule, router_registry, calls>>

NextRegistry ==
    \/ CallRegisterRule
    \/ CallClearRules
    \/ CallGetRule
    \/ CallListRules
    \/ CallRegisterRouter
    \/ CallClearRouters
    \/ CallGetRouter
    \/ CallListRouters

SpecRegistry == InitRegistry /\ [][NextRegistry]_vars

\* The positions of the calls made on one registry.
CallsOf(registry) == {n \in DOMAIN history.ops : history.ops[n].registry = registry}

\* The positions of the registrations under the name in the registry that
\* no clear of that registry followed.
LiveRegistrations(registry, name) ==
    {n \in CallsOf(registry) :
        /\ history.ops[n].op = "register"
        /\ history.ops[n].name = name
        /\ \A m \in CallsOf(registry) : m > n => history.ops[m].op # "clear"}

\* The object registered last under the name since the last clear.
MostRecent(registry, name) ==
    history.ops[CHOOSE n \in LiveRegistrations(registry, name) :
                    \A m \in LiveRegistrations(registry, name) : m <= n].object

\* C20: in the rule registry and in the router registry alike, get(name)
\* returns the object registered last under the name since the last clear
\* of that registry, and None if there is none; list returns exactly the
\* names get finds; calls on one registry change nothing in the other.
C20_Registries ==
    /\ last.op = "get_rule" =>
          last.result = IF LiveRegistrations("rule", last.name) = {} THEN None
                        ELSE RuleObj(MostRecent("rule", last.name))
    /\ last.op = "get_router" =>
          last.result = IF LiveRegistrations("router", last.name) = {} THEN None
                        ELSE RouterObj(MostRecent("router", last.name))
    /\ last.op = "list_rules" =>
          last.names = {n \in RegistryNames : LiveRegistrations("rule", n) # {}}
    /\ last.op = "list_routers" =>
          last.names = {n \in RegistryNames : LiveRegistrations("router", n) # {}}
    /\ list_rules = {n \in RegistryNames : registry_get_rule(n) # None}
    /\ list_routers = {n \in RegistryNames : registry_get_router(n) # None}

\* A router was registered, another of the same name after it, then the
\* rules were cleared: get_router returns the second router.
C20_Witness ==
    /\ last.op = "get_router"
    /\ last.name = "n1"
    /\ Len(history.ops) = 3
    /\ history.ops[1] = [registry |-> "router", op |-> "register", name |-> "n1", object |-> 1]
    /\ history.ops[2] = [registry |-> "router", op |-> "register", name |-> "n1", object |-> 2]
    /\ history.ops[3].registry = "rule"
    /\ history.ops[3].op = "clear"
    /\ last.result = RouterObj(2)

\* ========================================================= the model pool
\* The model names a pool is built from and the mutators are given.
PoolModels == {"m1", "m2", "m3"}

\* The longest list Router(name, models=...) is built from.
MaxPool == 2

\* The lists it is built from: not empty, a name may be twice in them.
PoolLists == {q \in SeqsUpTo(PoolModels, MaxPool) : Len(q) > 0}

\* model in self.models
InList(q, model) == \E n \in DOMAIN q : q[n] = model

\* list.remove(model): the list without the first entry equal to model.
RECURSIVE list_remove(_, _)
list_remove(q, model) ==
    IF Len(q) = 0 THEN <<>>
    ELSE IF Head(q) = model THEN Tail(q)
    ELSE <<Head(q)>> \o list_remove(Tail(q), model)

\* Router.add_model(model)
add_model(self, model) ==
    IF ~InList(self.models, model)
    THEN [raised |-> FALSE, router |-> [self EXCEPT !.models = Append(@, model)]]
    ELSE [raised |-> FALSE, router |-> self]

\* remove_model without the test for the last model.
remove_model_last_too(self, model) ==
    IF ~InList(self.models, model) THEN [raised |-> TRUE, router |-> self]
    ELSE [raised |-> FALSE, router |-> [self EXCEPT !.models = list_remove(@, model)]]

\* Router.remove_model(model)
remove_model(self, model) ==
    IF Len(self.models) <= 1 THEN [raised |-> TRUE, router |-> self]
    ELSE IF ~InList(self.models, model) THEN [raised |-> TRUE, router |-> self]
    ELSE [raised |-> FALSE, router |-> [self EXCEPT !.models = list_remove(@, model)]]

\* A call on the pool: the model given or returned, whether it raised, and
\* the list before the call.
PoolCall(op, model, raised, before) ==
    [op |-> op, model |-> model, raised |-> raised, before |-> before]

\* A Router is built without rules from a list of models.
InitPool ==
    /\ triggers = [i \in {1} |-> <<>>]
    /\ rule_registry = <<>>
    /\ router_registry = <<>>
    /\ calls = <<>>
    /\ the_rule = None
    /\ history = NoHistory
    /\ \E models \in PoolLists, default \in DefaultArgs :
          router = RouterInit("router", NoList, default, List(models))
    /\ last = PoolCall("none", None, FALSE, router.models)

\* router.add_model(model)
AddModel ==
    \E model \in PoolModels :
        LET out == add_model(router, model)
        IN /\ router' = out.router
           /\ last' = PoolCall("add_model", Str(model), out.raised, router.models)
           /\ UNCHANGED <<triggers, rule_registry, history, the_rule, router_registry, calls>>

\* router.remove_model(model)
RemoveModel ==
    \E model \in PoolModels :
        LET out == remove_model(router, model)
        IN /\ router' = out.router
           /\ last' = PoolCall("remove_model", Str(model), out.raised, router.models)
           /\ UNCHANGED <<triggers, rule_registry, history, the_rule, router_registry, calls>>

\* router.select_model(request_data) on the router without rules
SelectFromPool ==
    \E request_data \in Requests, pick \in Picks(router) :
        LET out == select_model(router, request_data, pick)
        IN /\ last' = PoolCall("select_model", out.model, out.raised, router.models)
           /\ UNCHANGED <<triggers, rule_registry, router, history, the_rule, router_registry, calls>>

NextPool ==
    \/ AddModel
    \/ RemoveModel
    \/ SelectFromPool

SpecPool == InitPool /\ [][NextPool]_vars

\* How often the model is in the list.
RECURSIVE Occurrences(_, _)
Occurrences(q, model) ==
    IF Len(q) = 0 THEN 0
    ELSE (IF Head(q) = model THEN 1 ELSE 0) + Occurrences(Tail(q), model)

\* C21: the model list of a Router built without rules from a non-empty
\* list is never empty. add_model of a model in the list changes nothing and
\* of another appends it once; remove_model raises and changes nothing when
\* one model remains or the model is not in the list, and else takes one
\* entry of the model out; select_model returns a member of the list.
C21_ModelPool ==
    /\ Len(router.models) > 0
    /\ last.op = "add_model" =>
          /\ ~last.raised
          /\ InList(last.before, last.model.s) => router.models = last.before
          /\ ~InList(last.before, last.model.s)
                => router.models = Append(last.before, last.model.s)
    /\ last.op = "remove_model" =>
          /\ last.raised <=> (Len(last.before) <= 1 \/ ~InList(last.before, last.model.s))
          /\ last.raised => router.models = last.before
          /\ ~last.raised =>
                /\ Len(router.models) = Len(last.before) - 1
                /\ \A m \in PoolModels :
                      Occurrences(router.models, m)
                         = Occurrences(last.before, m) - (IF m = last.model.s THEN 1 ELSE 0)
    /\ last.op = "select_model" =>
          /\ ~last.raised
          /\ last.model.kind = "str"
          /\ InList(router.models, last.model.s)

\* The only model left was to be removed: the call raised and the model is
\* still there.
C21_Witness ==
    /\ last.op = "remove_model"
    /\ last.raised
    /\ Len(last.before) = 1
    /\ last.before[1] = last.model.s
    /\ router.models = last.before


\* =========================================================================
\* Router calls followed statement by statement (SpecCalls): each caller
\* holds a request dict and makes one call; the local variables of the call
\* live in calls[c], the rules, the registry and the router are shared.
\* =========================================================================
Callers == {"c1", "c2"}

\* The dicts a caller passes: None, {}, or a dict with messages and with or
\* without a task.
CallerRequests ==
    {[isNone |-> TRUE, task |-> None, messages |-> None],
     [isNone |-> FALSE, task |-> None, messages |-> None]}
    \cup {[isNone |-> FALSE, task |-> t, messages |-> Str("hi")] :
             t \in {None, Str("a"), Str("b")}}

\* bool(request_data): None and {} are falsy.
TruthyDict(request_data) ==
    ~request_data.isNone /\ (request_data.task # None \/ request_data.messages # None)

\* request_data or {}: the caller's own dict when it is truthy, a new empty
\* dict otherwise.
or_empty_dict(request_data) ==
    IF TruthyDict(request_data) THEN request_data
    ELSE [isNone |-> FALSE, task |-> None, messages |-> None]

\* TaskRule.evaluate reading the task with request_data.pop('task', None).
task_rule_evaluate_pop(i, request_data) ==
    [decision |-> evaluate(i, request_data),
     request_data |-> [request_data EXCEPT !.task = None]]

\* TaskRule.evaluate(request_data): the Decision, and the dict as the call
\* leaves it (request_data.get('task') reads it).
task_rule_evaluate(i, request_data) ==
    [decision |-> evaluate(i, request_data),
     request_data |-> request_data]

\* The local variables of a call that has not started.
Idle(request) ==
    [pc |-> "idle", op |-> "none", request |-> request, request_data |-> request,
     pick |-> 1, i |-> 0, current_rule |-> None, depth |-> 0,
     explanation |-> <<>>, rule_explanation |-> <<>>, model |-> None,
     decision |-> Decision(None, None), interleaved |-> FALSE]

\* Bookkeeping: the call of c took a step while another call was in progress.
Met(cs, c) ==
    [cs EXCEPT ![c].interleaved =
        @ \/ \E d \in Callers \ {c} : calls[d].pc \in {"for", "while"}]

\* explanation.append(entry) on a list shared by the calls in progress.
rule_explanation_append_shared(cs, c, entry) ==
    [d \in DOMAIN cs |->
        IF d = c \/ cs[d].pc = "while"
        THEN [cs[d] EXCEPT !.rule_explanation = Append(@, entry)]
        ELSE cs[d]]

\* explanation.append(entry) in _evaluate_rule_chain_with_explanation: the
\* list is a local of the call. select_model keeps no list.
rule_explanation_append(cs, c, entry) ==
    [cs EXCEPT ![c].rule_explanation = Append(@, entry)]

\* The dict of the caller after a callee worked on the dict it was passed:
\* the same object when request_data or {} passed the caller's dict on.
Written(call, request_data) ==
    [call EXCEPT !.request_data = request_data,
                 !.request = IF TruthyDict(call.request) THEN request_data ELSE @]

\* select_model / select_model_with_explanation returning after the rules:
\* select_model returns what _select_model_by_rules gave; the explained call
\* returns it when it is truthy and falls back to the models, then the
\* default, otherwise.
Returned(call, model, explanation) ==
    IF call.op = "select_model"
    THEN [call EXCEPT !.pc = "done", !.model = model, !.explanation = <<>>]
    ELSE IF Truthy(model)
    THEN [call EXCEPT !.pc = "done", !.model = model, !.explanation = explanation]
    ELSE LET selected == IF Len(router.models) > 0
                         THEN Str(router.models[call.pick]) ELSE router.default
         IN [call EXCEPT !.pc = "done", !.model = selected,
                         !.explanation = Append(explanation,
                             ExplanationEntry("default", "default", Str("None"), selected.s))]

\* Back in the for loop with the chain's result: explanation.extend(
\* rule_explanation); return when selected_model is truthy, next entry
\* otherwise.
ChainReturned(call, selected_model) ==
    LET explanation == IF call.op = "select_model" THEN <<>>
                       ELSE call.explanation \o call.rule_explanation
    IN IF Truthy(selected_model)
       THEN Returned([call EXCEPT !.rule_explanation = <<>>], selected_model, explanation)
       ELSE [call EXCEPT !.pc = "for", !.i = @ + 1, !.explanation = explanation,
                         !.rule_explanation = <<>>]

\* The entry a chain step appends (none in select_model).
Appended(cs, c, entry) ==
    IF cs[c].op = "select_model" THEN cs ELSE rule_explanation_append(cs, c, entry)

\* The rules, the registry and a rule-based router are there; no call has
\* started, each caller holds a request.
InitCalls ==
    /\ triggers \in [RuleIds -> TriggerDicts]
    /\ rule_registry \in {<<>>, [n \in {RuleName(1)} |-> 1]}
    /\ \E rules \in {<<RuleObj(1)>>, <<RuleObj(1), RuleObj(2)>>,
                     <<Str(RuleName(1)), RuleObj(2)>>} :
          router = RouterInit("router", List(rules), None, NoList)
    /\ last = NoCall
    /\ history = NoHistory
    /\ the_rule = None
    /\ router_registry = <<>>
    /\ calls \in [Callers -> {Idle(r) : r \in CallerRequests}]

\* rule.evaluate(request) called by a caller on one of the rules.
CallEvaluate ==
    \E c \in Callers, i \in RuleIds :
        /\ calls[c].pc = "idle"
        /\ LET out == task_rule_evaluate(i, calls[c].request)
           IN calls' = [calls EXCEPT ![c] =
                           [Written([@ EXCEPT !.request_data = calls[c].request],
                                    out.request_data)
                            EXCEPT !.pc = "done", !.op = "evaluate",
                                   !.decision = out.decision]]
        /\ UNCHANGED <<triggers, rule_registry, router, last, history, the_rule,
                       router_registry>>

\* router.select_model(request) / router.select_model_with_explanation(
\* request) entered: self.rules is non-empty, the loop over it starts with
\* request_data or {}.
CallSelect ==
    \E c \in Callers, op \in {"select_model", "select_model_with_explanation"},
       pick \in Picks(router) :
        /\ calls[c].pc = "idle"
        /\ Len(router.rules) > 0
        /\ calls' = [calls EXCEPT ![c] =
                        [@ EXCEPT !.pc = "for", !.op = op, !.pick = pick, !.i = 1,
                                  !.request_data = or_empty_dict(calls[c].request)]]
        /\ UNCHANGED <<triggers, rule_registry, router, last, history, the_rule,
                       router_registry>>

\* One pass of "for rule_ref in self.rules" up to the call of the chain, or
\* the end of the loop and the return of the default.
ForStep ==
    \E c \in Callers :
        /\ calls[c].pc = "for"
        /\ LET call == calls[c]
           IN calls' = Met([calls EXCEPT ![c] =
                IF call.i > Len(router.rules)
                THEN Returned(call, router.default,
                              IF call.op = "select_model" THEN <<>>
                              ELSE Append(call.explanation,
                                       ExplanationEntry("default", "default", Str("None"),
                                                        router.default.s)))
                ELSE LET rule_ref == router.rules[call.i]
                         rule == ResolveRuleRef(rule_ref)
                     IN IF rule_ref.kind = "str" /\ rule = None
                        THEN [call EXCEPT !.i = @ + 1]
                        ELSE [call EXCEPT !.pc = "while", !.current_rule = rule,
                                          !.depth = 0, !.rule_explanation = <<>>]], c)
        /\ UNCHANGED <<triggers, rule_registry, router, last, history, the_rule,
                       router_registry>>

\* One pass of the while loop of the chain: the test, current_rule.evaluate,
\* the entry appended and the branch taken; or the exit at max_depth.
WhileStep ==
    \E c \in Callers :
        /\ calls[c].pc = "while"
        /\ LET call == calls[c]
               current_rule == call.current_rule
           IN IF Truthy(current_rule) /\ call.depth < max_depth
              THEN LET out == task_rule_evaluate(current_rule.id, call.request_data)
                       decision == out.decision
                       rule_type == get_rule_type(current_rule.id)
                       rule_name == RuleName(current_rule.id)
                       entry == ExplanationEntry(rule_type, rule_name, decision.trigger,
                                    IF is_model(decision) THEN get_model(decision).s
                                    ELSE IF is_rule(decision) THEN "continue"
                                    ELSE "no_match")
                       cs == Appended(calls, c, entry)
                       written == Written(cs[c], out.request_data)
                   IN calls' = Met([cs EXCEPT ![c] =
                          IF is_model(decision)
                          THEN ChainReturned(written, get_model(decision))
                          ELSE IF is_rule(decision)
                          THEN [written EXCEPT !.current_rule = get_rule(decision),
                                               !.depth = @ + 1]
                          ELSE ChainReturned(written, None)], c)
              ELSE LET cs == IF Truthy(current_rule)
                             THEN Appended(calls, c,
                                      ExplanationEntry(get_rule_type(current_rule.id),
                                                       RuleName(current_rule.id),
                                                       Str("max_depth_reached"), "no_match"))
                             ELSE calls
                   IN calls' = Met([cs EXCEPT ![c] = ChainReturned(cs[c], None)], c)
        /\ UNCHANGED <<triggers, rule_registry, router, last, history, the_rule,
                       router_registry>>

NextCalls ==
    \/ CallEvaluate
    \/ CallSelect
    \/ ForStep
    \/ WhileStep

SpecCalls == InitCalls /\ [][NextCalls]_vars


\* The calls that have returned.
Done(c) == calls[c].pc = "done"

C23_CallsIndependent ==
    \A c \in Callers :
        Done(c) /\ calls[c].op # "evaluate" =>
            LET call == calls[c]
                alone == IF call.op = "select_model"
                         THEN select_model(router, call.request, call.pick)
                         ELSE select_model_with_explanation(router, call.request, call.pick)
            IN /\ call.model = alone.model
               /\ call.explanation = alone.explanation

\* Two explained calls with different requests have both returned, their
\* steps having alternated, with different trails, one of two entries or more.
C23_Witness ==
    \E c, d \in Callers :
        /\ c # d
        /\ Done(c) /\ Done(d)
        /\ calls[c].op = "select_model_with_explanation"
        /\ calls[d].op = "select_model_with_explanation"
        /\ calls[c].interleaved /\ calls[d].interleaved
        /\ calls[c].request.task # calls[d].request.task
        /\ Len(calls[c].explanation) >= 2
        /\ Len(calls[d].explanation) >= 1
        /\ calls[c].model # calls[d].model


\* =========================================================================
\* Decision objects (SpecDecision): one Decision is constructed, then its
\* five methods are called in any order; last keeps what each returned.
\* =========================================================================
\* Decision.value: Union[str, Rule, None]; the trigger: Optional[str].
DecisionValues ==
    {None, Str(""), Str("X"), Str(RuleRefString(1))} \cup {RuleObj(i) : i \in RuleIds}
DecisionTriggers == {None, Str("a"), Str("")}

\* A method that was not called yet.
NotCalled == [called |-> FALSE, result |-> None]
Result(v) == [called |-> TRUE, result |-> v]
Bool(b) == IF b THEN Str("True") ELSE Str("False")

InitDecision ==
    /\ triggers \in [RuleIds -> {<<>>}]
    /\ rule_registry = <<>>
    /\ router = RouterInit("router", NoList, None, NoList)
    /\ history = NoHistory
    /\ \E value \in DecisionValues, trigger \in DecisionTriggers :
          the_rule = Decision(value, trigger)
    /\ router_registry = <<>>
    /\ calls = <<>>
    /\ last = [is_model |-> NotCalled, is_rule |-> NotCalled, is_none |-> NotCalled,
               get_model |-> NotCalled, get_rule |-> NotCalled]

\* decision.is_model()
IsModel ==
    /\ last' = [last EXCEPT !.is_model = Result(Bool(is_model(the_rule)))]
    /\ UNCHANGED <<triggers, rule_registry, router, history, the_rule, router_registry, calls>>

\* decision.is_rule()
IsRule ==
    /\ last' = [last EXCEPT !.is_rule = Result(Bool(is_rule(the_rule)))]
    /\ UNCHANGED <<triggers, rule_registry, router, history, the_rule, router_registry, calls>>

\* decision.is_none()
IsNone ==
    /\ last' = [last EXCEPT !.is_none = Result(Bool(is_none(the_rule)))]
    /\ UNCHANGED <<triggers, rule_registry, router, history, the_rule, router_registry, calls>>

\* decision.get_model()
GetModel ==
    /\ last' = [last EXCEPT !.get_model = Result(get_model(the_rule))]
    /\ UNCHANGED <<triggers, rule_registry, router, history, the_rule, router_registry, calls>>

\* decision.get_rule()
GetRule ==
    /\ last' = [last EXCEPT !.get_rule = Result(get_rule(the_rule))]
    /\ UNCHANGED <<triggers, rule_registry, router, history, the_rule, router_registry, calls>>

NextDecision ==
    \/ IsModel
    \/ IsRule
    \/ IsNone
    \/ GetModel
    \/ GetRule

SpecDecision == InitDecision /\ [][NextDecision]_vars

\* All five methods were called.
AllCalled ==
    /\ last.is_model.called /\ last.is_rule.called /\ last.is_none.called
    /\ last.get_model.called /\ last.get_rule.called

\* How many of the three tests answered True.
TrueTests ==
    Cardinality({t \in {"is_model", "is_rule", "is_none"} : last[t].result = Str("True")})

\* C24: for every Decision exactly one of is_model(), is_rule(), is_none()
\* is true; get_model() returns the value when is_model() is true and None
\* otherwise; get_rule() returns the value when is_rule() is true and None
\* otherwise.
C24_DecisionKinds ==
    AllCalled =>
        /\ TrueTests = 1
        /\ last.get_model.result =
              IF last.is_model.result = Str("True") THEN the_rule.value ELSE None
        /\ last.get_rule.result =
              IF last.is_rule.result = Str("True") THEN the_rule.value ELSE None

\* The five methods were called on a decision that hands over to a rule:
\* is_rule() was the one test that is true, get_rule() gave the rule and
\* get_model() gave None.
C24_Witness ==
    /\ AllCalled
    /\ the_rule.value = RuleObj(2)
    /\ last.is_rule.result = Str("True")
    /\ last.get_rule.result = RuleObj(2)
    /\ last.get_model.result = None


\* =========================================================================
\* chat.completions.create (SpecChat): one Router object, registered or not
\* under its name, and calls of create; history.ops holds the calls the
\* backend client received during the last create.
\* =========================================================================
\* The names after "deimos/" the model argument may carry, and the model
\* arguments: router references and a plain model id.
ChatRouterNames == {"router", "other", ""}
ChatModelArgs == {"deimos/" \o n : n \in ChatRouterNames} \cup {"gpt-4"}

\* model.startswith("deimos/") and model[7:]
startswith_deimos(model) == \E n \in ChatRouterNames : model = "deimos/" \o n
router_name_of(model) == CHOOSE n \in ChatRouterNames : model = "deimos/" \o n

\* **kwargs of create: any of task, temperature.
ChatKwargs ==
    UNION {[D -> {Str("a"), Str("b")}] : D \in SUBSET {"task"}}
    \cup {[k \in D \cup {"temperature"} |-> IF k = "task" THEN t ELSE Str("0.7")] :
             D \in SUBSET {"task"}, t \in {Str("a"), Str("b")}}
ChatMessages == {Str("hello")}

\* {k: v for k, v in kwargs.items() if k not in custom}
Without(kwargs, custom) == [k \in DOMAIN kwargs \ custom |-> kwargs[k]]

\* {'messages': messages, **kwargs} as the rules read it.
chat_request_data(messages, kwargs) ==
    [isNone |-> FALSE,
     task |-> IF "task" \in DOMAIN kwargs THEN kwargs["task"] ELSE None,
     messages |-> messages]

\* ExplanationEntry.to_dict()
to_dict(entry) ==
    [rule_type |-> entry.rule_type, rule_name |-> entry.rule_name,
     rule_trigger |-> entry.rule_trigger, decision |-> entry.decision]

\* What the backend answers: a ChatCompletion whose model field echoes the
\* model asked for.
NoMetadata == [given |-> FALSE, router_used |-> "", selected_model |-> None,
               original_model_field |-> None, available_models |-> <<>>,
               has_explain |-> FALSE, explain |-> <<>>]
NoResponse == [model |-> None, metadata |-> NoMetadata]
BackendCall(messages, model, kwargs) ==
    [messages |-> messages, model |-> model, kwargs |-> kwargs]

\* The router branch of create from the selection on: selection is what
\* router.select_model_with_explanation / select_model returned, custom the
\* keys filtered out of kwargs. One backend call with the selected model,
\* then the metadata on the response.
routed_create(router_name, selection, messages, explain, kwargs, custom) ==
    IF selection.raised
    THEN [raised |-> TRUE, backend |-> <<>>, response |-> NoResponse]
    ELSE [raised |-> FALSE,
          backend |-> <<BackendCall(messages, selection.model, Without(kwargs, custom))>>,
          response |->
             [model |-> selection.model,
              metadata |->
                 [given |-> TRUE, router_used |-> router_name,
                  selected_model |-> selection.model,
                  original_model_field |-> selection.model,
                  available_models |-> router.models,
                  has_explain |-> explain /\ Len(selection.explanation) > 0,
                  explain |-> IF explain
                              THEN [k \in 1..Len(selection.explanation) |->
                                       to_dict(selection.explanation[k])]
                              ELSE <<>>]]]

\* create with openai_kwargs = kwargs minus 'explain' only.
create_forwarding_task(messages, model, explain, kwargs, pick) ==
    IF startswith_deimos(model)
    THEN IF registry_get_router(router_name_of(model)) = None
         THEN [raised |-> TRUE, backend |-> <<>>, response |-> NoResponse]
         ELSE routed_create(router_name_of(model),
                  IF explain
                  THEN select_model_with_explanation(
                           router, chat_request_data(messages, kwargs), pick)
                  ELSE select_model(router, chat_request_data(messages, kwargs), pick),
                  messages, explain, kwargs, {"explain"})
    ELSE [raised |-> FALSE,
          backend |-> <<BackendCall(messages, Str(model), kwargs)>>,
          response |-> [model |-> Str(model), metadata |-> NoMetadata]]

\* ChatCompletions.create(messages, model, explain, **kwargs); pick is the
\* draw of random.choice inside the router. An unknown router name raises
\* ValueError; a model without the prefix goes to the backend as it is.
create(messages, model, explain, kwargs, pick) ==
    IF startswith_deimos(model)
    THEN IF registry_get_router(router_name_of(model)) = None
         THEN [raised |-> TRUE, backend |-> <<>>, response |-> NoResponse]
         ELSE routed_create(router_name_of(model),
                  IF explain
                  THEN select_model_with_explanation(
                           router, chat_request_data(messages, kwargs), pick)
                  ELSE select_model(router, chat_request_data(messages, kwargs), pick),
                  messages, explain, kwargs, {"task", "explain"})
    ELSE [raised |-> FALSE,
          backend |-> <<BackendCall(messages, Str(model), kwargs)>>,
          response |-> [model |-> Str(model), metadata |-> NoMetadata]]

\* The call and what came of it.
ChatCall(messages, model, explain, kwargs, pick, out) ==
    [op |-> "create", messages |-> messages, model |-> model, explain |-> explain,
     kwargs |-> kwargs, pick |-> pick, raised |-> out.raised, backend |-> out.backend,
     response |-> out.response]

\* The rules are built (the second one sends task "a" to a model), the
\* Router "router" is constructed with rules or with a model list, and
\* register_router(router) was called or not.
InitChat ==
    /\ \E first \in TriggerDicts :
          triggers = [i \in RuleIds |-> IF i = 1 THEN first ELSE [t \in {"a"} |-> Str("Y")]]
    /\ rule_registry = <<>>
    /\ \E rules \in {NoList, List(<<RuleObj(1)>>), List(<<RuleObj(1), RuleObj(2)>>)},
          models \in {NoList, List(<<"m1", "m2">>)} :
          router = RouterInit("router", rules, None, models)
    /\ router_registry \in {<<>>, [n \in {"router"} |-> 1]}
    /\ history = NoHistory
    /\ the_rule = None
    /\ calls = <<>>
    /\ last = [op |-> "none", messages |-> None, model |-> "", explain |-> FALSE,
               kwargs |-> <<>>, pick |-> 1, raised |-> FALSE, backend |-> <<>>,
               response |-> NoResponse]

\* chat.completions.create(messages=..., model=..., explain=..., **kwargs)
Create ==
    \E messages \in ChatMessages, model \in ChatModelArgs, explain \in BOOLEAN,
       kwargs \in ChatKwargs, pick \in Picks(router) :
        /\ last' = ChatCall(messages, model, explain, kwargs, pick,
                            create(messages, model, explain, kwargs, pick))
        /\ history' = [history EXCEPT !.ops = last'.backend]
        /\ UNCHANGED <<triggers, rule_registry, router, the_rule, router_registry, calls>>

NextChat == Create

SpecChat == InitChat /\ [][NextChat]_vars

\* The last create call named a registered router.
RoutedCall ==
    /\ last.op = "create"
    /\ startswith_deimos(last.model)
    /\ router_name_of(last.model) \in DOMAIN router_registry

\* The model the router selects for the request of the last call.
RouterSelects(model) ==
    LET request_data == chat_request_data(last.messages, last.kwargs)
    IN IF last.explain
       THEN select_model_with_explanation(router, request_data, last.pick).model = model
       ELSE select_model(router, request_data, last.pick).model = model

ChainLength == 12

\* How the chain ends at its last rule: a model for task "a", no mapping for
\* it, or a mapping to the rule itself.
ChainEnds == {"X", "Y", "none", "self"}

\* The triggers of the rules of a chain of m rules ending in the given way.
ChainTriggers(m, end) ==
    [k \in 1..ChainLength |->
        IF k < m THEN [t \in {"a"} |-> RuleObj(k + 1)]
        ELSE IF k > m \/ end = "none" THEN <<>>
        ELSE IF end = "self" THEN [t \in {"a"} |-> RuleObj(k)]
        ELSE [t \in {"a"} |-> Str(end)]]

\* The requests the chain is evaluated on.
ChainRequests == {[isNone |-> FALSE, task |-> t] : t \in {None, Str("a"), Str("b")}}

InitChain ==
    /\ \E m \in 1..ChainLength, end \in ChainEnds : triggers = ChainTriggers(m, end)
    /\ rule_registry = <<>>
    /\ router = RouterInit("router", List(<<RuleObj(1)>>), None, NoList)
    /\ history = NoHistory
    /\ the_rule = None
    /\ router_registry = <<>>
    /\ calls = <<>>
    /\ last = [op |-> "none", request |-> [isNone |-> FALSE, task |-> None],
               model |-> None, explanation |-> <<>>, evals |-> <<>>]

\* router._evaluate_rule_chain(rule1, request_data)
EvaluateRuleChain ==
    \E request_data \in ChainRequests :
        LET out == evaluate_rule_chain(RuleObj(1), request_data)
        IN /\ last' = [op |-> "_evaluate_rule_chain", request |-> request_data,
                       model |-> out.model, explanation |-> <<>>, evals |-> out.evals]
           /\ UNCHANGED <<triggers, rule_registry, router, history, the_rule, router_registry, calls>>

\* router._evaluate_rule_chain_with_explanation(rule1, request_data)
EvaluateRuleChainWithExplanation ==
    \E request_data \in ChainRequests :
        LET out == evaluate_rule_chain_with_explanation(RuleObj(1), request_data)
        IN /\ last' = [op |-> "_evaluate_rule_chain_with_explanation",
                       request |-> request_data, model |-> out.model,
                       explanation |-> out.explanation, evals |-> out.evals]
           /\ UNCHANGED <<triggers, rule_registry, router, history, the_rule, router_registry, calls>>

NextChain ==
    \/ EvaluateRuleChain
    \/ EvaluateRuleChainWithExplanation

SpecChain == InitChain /\ [][NextChain]_vars

\* The position in the chain (1 for the starting rule) of the first rule
\* that returns a model when the hand-overs are followed without a depth
\* limit, 0 when no rule of the chain does.
RECURSIVE FirstModelAt(_, _, _)
FirstModelAt(i, k, request_data) ==
    IF k > ChainLength + 1 THEN 0
    ELSE LET d == evaluate(i, request_data)
         IN IF d.value.kind = "str" THEN k
            ELSE IF d.value.kind = "rule" THEN FirstModelAt(d.value.id, k + 1, request_data)
            ELSE 0

ChainCall == last.op \in {"_evaluate_rule_chain", "_evaluate_rule_chain_with_explanation"}

\* C26: with max_depth = 10 one chain evaluates at most 10 rules; it yields
\* a model exactly when one of the first 10 rules of the chain returns a
\* model; when the first model decision would come from the 11th rule of a
\* linear chain, that rule is never evaluated and the chain yields no model.
C26_DepthBound ==
    ChainCall =>
        LET first == FirstModelAt(1, 1, last.request)
        IN /\ Len(last.evals) <= max_depth
           /\ (last.model # None) <=> (first >= 1 /\ first <= max_depth)
           /\ first = max_depth + 1 =>
                 /\ last.model = None
                 /\ \A k \in DOMAIN last.evals : last.evals[k].rule # max_depth + 1
                 /\ Len(last.evals) = max_depth

\* The chain whose 11th rule maps the task to a model was evaluated on that
\* task: ten rules were evaluated, the tenth handing over, and no model came.
C26_Witness ==
    /\ ChainCall
    /\ last.request.task = Str("a")
    /\ "a" \in DOMAIN triggers[max_depth + 1]
    /\ triggers[max_depth + 1]["a"] = Str("X")
    /\ Len(last.evals) = max_depth
    /\ last.evals[max_depth].value = RuleObj(max_depth + 1)
    /\ last.model = None


\* The last call was CodeLanguageRule.evaluate.
CodeLanguageCall == last.op = "evaluate" /\ the_rule.class = "CodeLanguageRule"

\* The regex phase of the last call gave a language the rule maps.
RegexGaveMapped ==
    Truthy(last.regex) /\ last.regex.s \in DOMAIN the_rule.language_mappings

\* The targets of the mapped languages that have regex patterns.
RegexFamilyTargets ==
    {the_rule.language_mappings[k] :
        k \in DOMAIN the_rule.language_mappings \cap PatternLanguages}

\* C27: CodeLanguageRule.evaluate enters the classifier phase only when the
\* text is not empty, the regex phase gave no language of the mapping,
\* enable_llm_fallback is true and the mapping has a key without regex
\* patterns; the candidates it passes are exactly those keys; the classifier
\* is called at most once; and a regex winner outside the mapping never
\* selects the target of a mapped language that has regex patterns: the
\* result is the classifier's choice among the candidates or the default.
C27_ClassifierPhase ==
    CodeLanguageCall =>
        /\ last.out.asked =>
              /\ ~last.text_empty
              /\ ~RegexGaveMapped
              /\ the_rule.enable_llm_fallback
              /\ DOMAIN the_rule.language_mappings \ PatternLanguages # {}
              /\ last.out.candidates = DOMAIN the_rule.language_mappings \ PatternLanguages
        /\ last.out.calls <= 1
        /\ (~last.out.asked) => last.out.calls = 0
        /\ (~last.text_empty /\ Truthy(last.regex) /\ ~RegexGaveMapped) =>
              /\ last.out.decision.value \notin RegexFamilyTargets
              /\ \/ last.out.decision.value = the_rule.default
                 \/ /\ last.out.asked
                    /\ \E k \in last.out.candidates :
                          last.out.decision.value = the_rule.language_mappings[k]

\* The regex phase named java, which the rule does not map, while python
\* and Perl are mapped: the classifier was asked once about Perl alone and
\* its answer chose Perl's target.
C27_Witness ==
    /\ CodeLanguageCall
    /\ last.regex = Str("java")
    /\ DOMAIN the_rule.language_mappings = {"python", "Perl"}
    /\ last.out.asked
    /\ last.out.candidates = {"Perl"}
    /\ last.out.calls = 1
    /\ last.out.decision.value = Str("to-Perl")


\* =========================================================================
\* Names in Router.rules (SpecResolve): the router is built with rule
\* names while the registry is empty; then rules are registered, registered
\* again and cleared, and the router is called in between. Rule objects 1
\* and 2 have the same name.
\* =========================================================================
\* The rules' mappings: object 1 and object 2 send task "a" to different
\* models, object 3 sends task "b" to a model.
ResolveTriggers ==
    [o \in RegistryObjects |->
        IF o = 1 THEN [t \in {"a"} |-> Str("X")]
        ELSE IF o = 2 THEN [t \in {"a"} |-> Str("Y")]
        ELSE [t \in {"b"} |-> Str("Y")]]

\* The rule lists: names only, or a name followed by a Rule object.
ResolveRules ==
    {<<Str(name_of(1))>>, <<Str(name_of(1)), Str(name_of(3))>>,
     <<Str(name_of(1)), RuleObj(3)>>}

InitResolve ==
    /\ triggers = ResolveTriggers
    /\ rule_registry = <<>>
    /\ router_registry = <<>>
    /\ calls = <<>>
    /\ \E rules \in ResolveRules : router = RouterInit("router", List(rules), Str("Z"), NoList)
    /\ the_rule = None
    /\ history = NoHistory
    /\ last = RegistryCall("none", "", None, {})

\* router.select_model(request_data) between the registry calls.
SelectByName ==
    \E request_data \in ChainRequests :
        /\ last' = Call("select_model", request_data, select_model(router, request_data, 1))
        /\ UNCHANGED <<triggers, rule_registry, router, history, the_rule, router_registry, calls>>

NextResolve ==
    \/ CallRegisterRule
    \/ CallClearRules
    \/ SelectByName

SpecResolve == InitResolve /\ [][NextResolve]_vars

\* The entries of Router.rules that are names.
NameEntries == {t \in 1..Len(router.rules) : router.rules[t].kind = "str"}

\* The name of the t-th entry has a registration no clear_rules followed.
Bound(t) == LiveRegistrations("rule", router.rules[t].s) # {}

\* C28: a name in Router.rules is looked up in the registry at each call.
\* In a call made after any register_rule / clear_rules calls that followed
\* the router's construction, the chain of a name entry starts at the rule
\* registered last under the name since the last clear_rules; an entry
\* whose name has no such registration is skipped; and when no entry's rule
\* gives a model the default is returned.
C28_ResolvedAtCall ==
    last.op = "select_model" =>
        /\ \A t \in NameEntries :
              /\ ~Bound(t) => t \notin Tops
              /\ t \in Tops => ChainEvals(t)[1].rule = MostRecent("rule", router.rules[t].s)
        /\ (1 \in NameEntries /\ Bound(1)) => 1 \in Tops
        /\ (\A k \in DOMAIN last.evals : last.evals[k].value.kind # "str") =>
              last.model = router.default

\* Rule object 1 was registered, then object 2 under the same name, and the
\* router built before both answered with the model of object 2.
C28_Witness ==
    /\ last.op = "select_model"
    /\ Len(history.ops) = 2
    /\ history.ops[1].op = "register" /\ history.ops[1].object = 1
    /\ history.ops[2].op = "register" /\ history.ops[2].object = 2
    /\ last.request.task = Str("a")
    /\ last.model = Str("Y")


\* C29: every select_model_with_explanation call, on a router with rules or
\* without, returns an explanation that is not empty and whose last entry
\* has the returned model as its decision; an entry with decision
\* "continue" is never the last one: another entry of the call follows it.
C29_ExplanationShape ==
    last.op = "select_model_with_explanation" =>
        /\ ~last.raised
        /\ Len(last.explanation) >= 1
        /\ last.explanation[Len(last.explanation)].decision = last.model.s
        /\ last.model.kind = "str"
        /\ \A k \in DOMAIN last.explanation :
              last.explanation[k].decision = "continue" => k < Len(last.explanation)

\* A router with rules was asked: a rule handed over (a "continue" entry
\* with an entry after it) and the trail ends with the model returned; the
\* router has a model list as well.
C29_Witness ==
    /\ last.op = "select_model_with_explanation"
    /\ Len(router.rules) > 0
    /\ Len(last.explanation) >= 3
    /\ last.explanation[1].decision = "continue"
    /\ last.explanation[Len(last.explanation)].decision = last.model.s
    /\ last.explanation[Len(last.explanation)].rule_type = "default"


\* The closed form: four code matches or more, or at least two that are
\* no fewer than the not-code matches.
ClosedFormSaysCode(c, n) == c >= 4 \/ (c >= 2 /\ c >= n)

\* The cascade of _contains_code with its third test (many not-code
\* matches and fewer than three code matches) left out.
CascadeWithoutOverride(c, n) ==
    IF c = 0 THEN FALSE
    ELSE IF c >= 4 THEN TRUE
    ELSE IF n = 0 THEN c >= 2
    ELSE (2 * c >= c + n) /\ c >= 2

\* The last call was evaluate on a text that is not empty, and it said code.
EvaluatedText == last.op = "evaluate" /\ ~last.text.empty
SaidCode == last.decision.trigger = Str("code_detected")

\* C30: on every text that is not empty CodeRule.evaluate says code exactly
\* when code_matches >= 4 or (code_matches >= 2 and code_matches >=
\* not_code_matches); the cascade without the override step says the same;
\* and of two evaluations in a row with the same not_code_matches, the
\* second with no fewer code_matches, the second says code if the first did.
C30_ClosedForm ==
    [][/\ EvaluatedText' =>
             /\ SaidCode' <=> ClosedFormSaysCode(last'.text.code_matches,
                                                 last'.text.not_code_matches)
             /\ SaidCode' <=> CascadeWithoutOverride(last'.text.code_matches,
                                                     last'.text.not_code_matches)
             /\ last'.decision.value = IF SaidCode' THEN the_rule.code ELSE the_rule.not_code
       /\ (/\ EvaluatedText /\ EvaluatedText'
           /\ last'.text.not_code_matches = last.text.not_code_matches
           /\ last'.text.code_matches >= last.text.code_matches
           /\ SaidCode) => SaidCode']_vars

\* Three code matches against five not-code matches: past the override step
\* (which needs fewer than three), the ratio test said not code.
C30_Witness ==
    /\ EvaluatedText
    /\ last.text.code_matches = 3
    /\ last.text.not_code_matches = 5
    /\ ~SaidCode
    /\ the_rule.code # the_rule.not_code

====
